---- MODULE Spec2Model ----
(***************************************************************************)
(* Credential vault and request gateway of the openhome mobile client      *)
(* (src/mobile/src-tauri/src/lib.rs).                                      *)
(*                                                                         *)
(* Strings are sequences of one-character strings, Option<T> is the empty  *)
(* sequence (None) or a one-element sequence (Some(v)).                    *)
(***************************************************************************)
EXTENDS Integers, Sequences, FiniteSets, TLC

VARIABLES
    devBuild,          \* cfg(debug_assertions): config.dev.toml is compiled in
    mobile,            \* cfg(any(target_os = "android", target_os = "ios"))
    config,            \* ConfigState.config.api
    api_key,           \* ConfigState.api_key: Mutex<Option<String>>
    last_unlock_time,  \* ConfigState.last_unlock_time: Mutex<Option<Instant>>
    vault,             \* the "api_key" entry of the committed Stronghold snapshot
    now,               \* the monotonic clock read by Instant::now(), in seconds
    ret,               \* the last command: its name, arguments and what it returned
    hist,              \* what has happened since earlier commands (history only)
    arg,               \* argument of the pure function under check
    res,               \* its result
    tasks,             \* the commands in flight, statement by statement
    locks              \* the holder of each Mutex of ConfigState, 0 when free

vars == <<devBuild, mobile, config, api_key, last_unlock_time, vault, now,
          ret, hist, arg, res, tasks, locks>>

None == <<>>
Some(v) == <<v>>
IsSome(o) == o # <<>>
Unwrap(o) == o[1]

-----------------------------------------------------------------------------
(* Characters and strings                                                  *)

\* The printable ASCII characters, code 32 (space) to 126 (~), in order.
AsciiTable ==
    << " ", "!", "\"", "#", "$", "%", "&", "'", "(", ")", "*", "+", ",", "-", ".", "/",
       "0", "1", "2", "3", "4", "5", "6", "7", "8", "9", ":", ";", "<", "=", ">", "?",
       "@", "A", "B", "C", "D", "E", "F", "G", "H", "I", "J", "K", "L", "M", "N", "O",
       "P", "Q", "R", "S", "T", "U", "V", "W", "X", "Y", "Z", "[", "\\", "]", "^", "_",
       "GRAVE", "a", "b", "c", "d", "e", "f", "g", "h", "i", "j", "k", "l", "m", "n", "o",
       "p", "q", "r", "s", "t", "u", "v", "w", "x", "y", "z", "{", "|", "}", "~" >>

\* The NUL character, which TLA+ strings cannot spell (nor the grave accent,
\* code 96, written GRAVE in the table).
NUL == "NUL"

\* The byte of each character of the table.
AsciiCode == [c \in {AsciiTable[i] : i \in 1..Len(AsciiTable)} |->
                31 + (CHOOSE i \in 1..Len(AsciiTable) : AsciiTable[i] = c)]

\* The byte of an ASCII character.
Ord(c) ==
    CASE c = NUL -> 0
      [] c = "\t" -> 9
      [] c = "\n" -> 10
      [] c = "\f" -> 12
      [] c = "\r" -> 13
      [] OTHER -> AsciiCode[c]

\* The ASCII character of a byte in 32..126.
Chr(n) == AsciiTable[n - 31]

\* str::as_bytes for an ASCII string.
Bytes(s) == [i \in 1..Len(s) |-> Ord(s[i])]

\* str::contains(&str)
Contains(s, sub) ==
    \E i \in 1..(Len(s) - Len(sub) + 1) : SubSeq(s, i, i + Len(sub) - 1) = sub

\* str::starts_with(&str)
StartsWith(s, p) ==
    /\ Len(p) <= Len(s)
    /\ SubSeq(s, 1, Len(p)) = p

\* str::trim_start_matches(char)
RECURSIVE TrimStartMatches(_, _)
TrimStartMatches(s, c) ==
    IF s # <<>> /\ Head(s) = c THEN TrimStartMatches(Tail(s), c) ELSE s

\* str::trim_end_matches(char)
RECURSIVE TrimEndMatches(_, _)
TrimEndMatches(s, c) ==
    IF s # <<>> /\ s[Len(s)] = c
    THEN TrimEndMatches(SubSeq(s, 1, Len(s) - 1), c)
    ELSE s

\* char::is_whitespace on the ASCII range.
IsWhitespace(c) == c \in {" ", "\t", "\n", "\f", "\r"}

RECURSIVE TrimStart(_)
TrimStart(s) ==
    IF s # <<>> /\ IsWhitespace(Head(s)) THEN TrimStart(Tail(s)) ELSE s

RECURSIVE TrimEnd(_)
TrimEnd(s) ==
    IF s # <<>> /\ IsWhitespace(s[Len(s)])
    THEN TrimEnd(SubSeq(s, 1, Len(s) - 1))
    ELSE s

\* str::trim
Trim(s) == TrimEnd(TrimStart(s))

\* char::to_uppercase on ASCII; str::to_uppercase maps it over the string.
ToUpperChar(c) ==
    IF Ord(c) >= 97 /\ Ord(c) <= 122 THEN Chr(Ord(c) - 32) ELSE c

ToUppercase(s) == [i \in 1..Len(s) |-> ToUpperChar(s[i])]

ToLowerChar(c) ==
    IF Ord(c) >= 65 /\ Ord(c) <= 90 THEN Chr(Ord(c) + 32) ELSE c

ToLowercase(s) == [i \in 1..Len(s) |-> ToLowerChar(s[i])]

\* Value of a hexadecimal digit, -1 for any other character.
HexVal(c) ==
    LET n == Ord(c) IN
    IF n >= 48 /\ n <= 57 THEN n - 48
    ELSE IF n >= 97 /\ n <= 102 THEN n - 87
    ELSE IF n >= 65 /\ n <= 70 THEN n - 55
    ELSE -1

\* percent_encoding::percent_decode_str: "%" followed by two hexadecimal
\* digits becomes the byte they spell, every other byte is copied.
RECURSIVE PercentDecode(_)
PercentDecode(s) ==
    IF s = <<>> THEN <<>>
    ELSE IF /\ Head(s) = "%"
            /\ Len(s) >= 3
            /\ HexVal(s[2]) >= 0
            /\ HexVal(s[3]) >= 0
         THEN <<16 * HexVal(s[2]) + HexVal(s[3])>> \o PercentDecode(SubSeq(s, 4, Len(s)))
         ELSE <<Ord(Head(s))>> \o PercentDecode(Tail(s))

IsCont(b) == b >= 128 /\ b <= 191

\* core::str::from_utf8: is the byte sequence well-formed UTF-8?
RECURSIVE Utf8Valid(_)
Utf8Valid(b) ==
    IF b = <<>> THEN TRUE
    ELSE LET h == b[1] IN
         IF h < 128 THEN Utf8Valid(Tail(b))
         ELSE IF h >= 194 /\ h <= 223
              THEN /\ Len(b) >= 2
                   /\ IsCont(b[2])
                   /\ Utf8Valid(SubSeq(b, 3, Len(b)))
         ELSE IF h >= 224 /\ h <= 239
              THEN /\ Len(b) >= 3
                   /\ IsCont(b[2])
                   /\ IsCont(b[3])
                   /\ (h = 224 => b[2] >= 160)
                   /\ (h = 237 => b[2] <= 159)
                   /\ Utf8Valid(SubSeq(b, 4, Len(b)))
         ELSE IF h >= 240 /\ h <= 244
              THEN /\ Len(b) >= 4
                   /\ IsCont(b[2])
                   /\ IsCont(b[3])
                   /\ IsCont(b[4])
                   /\ (h = 240 => b[2] >= 144)
                   /\ (h = 244 => b[2] <= 143)
                   /\ Utf8Valid(SubSeq(b, 5, Len(b)))
         ELSE FALSE

\* Cow<str>::contains on the decoded text, as bytes.
ContainsBytes(b, sub) ==
    \E i \in 1..(Len(b) - Len(sub) + 1) : SubSeq(b, i, i + Len(sub) - 1) = sub

\* The pieces of s between "/" characters.
RECURSIVE SplitSlash(_, _)
SplitSlash(s, cur) ==
    IF s = <<>> THEN <<cur>>
    ELSE IF Head(s) = "/" THEN <<cur>> \o SplitSlash(Tail(s), <<>>)
    ELSE SplitSlash(Tail(s), Append(cur, Head(s)))

RECURSIVE DropCurDir(_, _)
DropCurDir(parts, first) ==
    IF parts = <<>> THEN <<>>
    ELSE IF Head(parts) = <<>> THEN DropCurDir(Tail(parts), first)
    ELSE IF Head(parts) = <<".">> /\ ~first THEN DropCurDir(Tail(parts), FALSE)
    ELSE <<Head(parts)>> \o DropCurDir(Tail(parts), FALSE)

\* std::path::Path::components on Unix for a path without a leading "/":
\* empty pieces are skipped, and so is "." except as the first component.
Components(s) == DropCurDir(SplitSlash(s, <<>>), TRUE)

-----------------------------------------------------------------------------
(* is_path_safe                                                            *)

DotDot == <<".", ".">>
SchemeSep == <<":", "/", "/">>
FilePrefix == <<"f", "i", "l", "e", ":">>
DataPrefix == <<"d", "a", "t", "a", ":">>

is_path_safe(path) ==
    LET normalized == TrimStartMatches(path, "/")
        decoded == PercentDecode(normalized)
        comps == Components(normalized)
    IN  IF normalized = <<>> \/ Contains(normalized, DotDot) \/ Contains(normalized, <<"\\">>)
        THEN FALSE
        ELSE IF \/ Contains(normalized, SchemeSep)
                \/ StartsWith(normalized, FilePrefix)
                \/ StartsWith(normalized, DataPrefix)
        THEN FALSE
        ELSE IF /\ Utf8Valid(decoded)
                /\ \/ ContainsBytes(decoded, Bytes(DotDot))
                   \/ ContainsBytes(decoded, Bytes(<<"\\">>))
        THEN FALSE
        ELSE IF \E i \in 1..Len(comps) : comps[i] = DotDot \/ Contains(comps[i], <<NUL>>)
        THEN FALSE
        ELSE TRUE

-----------------------------------------------------------------------------
(* Errors (AppError) and string constants of lib.rs                        *)

ErrConfig(msg) == [kind |-> "Config", msg |-> msg]
MissingApiKey == [kind |-> "MissingApiKey", msg |-> ""]
ApiKeyRejected == [kind |-> "ApiKeyRejected", msg |-> ""]
ErrNetwork == [kind |-> "Network", msg |-> ""]
BiometricCancelled == [kind |-> "BiometricCancelled", msg |-> ""]
BiometricUnavailable == [kind |-> "BiometricUnavailable", msg |-> ""]
BiometricFailed == [kind |-> "BiometricFailed", msg |-> ""]
VaultUnavailable(msg) == [kind |-> "VaultUnavailable", msg |-> msg]

S_GET == <<"G", "E", "T">>
S_POST == <<"P", "O", "S", "T">>
S_DELETE == <<"D", "E", "L", "E", "T", "E">>
S_http == <<"h", "t", "t", "p">>
S_https == <<"h", "t", "t", "p", "s">>
ApiPrefix == <<"a", "p", "i", "/">>

-----------------------------------------------------------------------------
(* validate_base_url                                                       *)

IsAlpha(c) == ToLowerChar(c) # ToUpperChar(c)
IsDigit(c) == Ord(c) >= 48 /\ Ord(c) <= 57
IsSchemeChar(c) == IsAlpha(c) \/ IsDigit(c) \/ c \in {"+", "-", "."}

\* Length of the longest prefix of s made of scheme characters.
RECURSIVE SchemeLen(_)
SchemeLen(s) ==
    IF s # <<>> /\ IsSchemeChar(Head(s)) THEN 1 + SchemeLen(Tail(s)) ELSE 0

RECURSIVE SkipSlashes(_)
SkipSlashes(s) ==
    IF s # <<>> /\ Head(s) \in {"/", "\\"} THEN SkipSlashes(Tail(s)) ELSE s

SpecialWithHost == {S_http, S_https, <<"f", "t", "p">>, <<"w", "s">>, <<"w", "s", "s">>}

\* url::Url::parse without a base, reduced to what validate_base_url reads:
\* Some(scheme) when the input is an absolute URL, None when parsing fails
\* (no scheme, or an http/https/ftp/ws/wss URL with an empty host).
UrlParse(input) ==
    LET s == Trim(input)
        n == SchemeLen(s)
    IN  IF s = <<>> \/ ~IsAlpha(Head(s)) \/ n >= Len(s) \/ s[n + 1] # ":"
        THEN None
        ELSE LET scheme == ToLowercase(SubSeq(s, 1, n))
                 rest == SubSeq(s, n + 2, Len(s))
             IN  IF scheme \in SpecialWithHost
                    /\ (SkipSlashes(rest) = <<>> \/ Head(SkipSlashes(rest)) \in {"?", "#"})
                 THEN None
                 ELSE Some(scheme)

\* validate_base_url without the test of the scheme.
validate_base_url_AnyScheme(url) ==
    LET url_str == TrimEndMatches(url, "/")
        parsed_url == UrlParse(url_str)
    IN  IF parsed_url = None
        THEN [err |-> Some(ErrConfig("Invalid base URL")), ok |-> <<>>]
        ELSE [err |-> None, ok |-> url_str]

\* Result<String, AppError> as [err |-> Option<AppError>, ok |-> String]
validate_base_url(url) ==
    LET url_str == TrimEndMatches(url, "/")
        parsed_url == UrlParse(url_str)
    IN  IF parsed_url = None
        THEN [err |-> Some(ErrConfig("Invalid base URL")), ok |-> <<>>]
        ELSE IF Unwrap(parsed_url) # S_http /\ Unwrap(parsed_url) # S_https
        THEN [err |-> Some(ErrConfig("Base URL must use http or https scheme")), ok |-> <<>>]
        ELSE [err |-> None, ok |-> url_str]

-----------------------------------------------------------------------------
(* call_api                                                                *)

\* ValidateCall whose allow-list also holds PUT.
ValidateCall_AllowsPut(path, method, base_url, timeout_seconds) ==
    LET method_upper == ToUppercase(method)
        path_normalized == TrimStartMatches(path, "/")
    IN  IF method_upper \notin {S_GET, S_POST, S_DELETE, <<"P", "U", "T">>}
        THEN Some(ErrConfig("Only GET, POST, and DELETE are allowed"))
        ELSE IF ~is_path_safe(path_normalized)
        THEN Some(ErrConfig("Invalid path"))
        ELSE IF ~StartsWith(path_normalized, ApiPrefix)
        THEN Some(ErrConfig("Path must start with /api/"))
        ELSE IF ~(timeout_seconds >= 1 /\ timeout_seconds <= 300)
        THEN Some(ErrConfig("Timeout must be between 1 and 300 seconds"))
        ELSE IF Trim(base_url) = <<>>
        THEN Some(ErrConfig("Base URL cannot be empty"))
        ELSE validate_base_url(base_url).err

\* ValidateCall whose timeout range leaves out its upper end.
ValidateCall_TimeoutBelow300(path, method, base_url, timeout_seconds) ==
    LET method_upper == ToUppercase(method)
        path_normalized == TrimStartMatches(path, "/")
    IN  IF method_upper \notin {S_GET, S_POST, S_DELETE}
        THEN Some(ErrConfig("Only GET, POST, and DELETE are allowed"))
        ELSE IF ~is_path_safe(path_normalized)
        THEN Some(ErrConfig("Invalid path"))
        ELSE IF ~StartsWith(path_normalized, ApiPrefix)
        THEN Some(ErrConfig("Path must start with /api/"))
        ELSE IF ~(timeout_seconds >= 1 /\ timeout_seconds < 300)
        THEN Some(ErrConfig("Timeout must be between 1 and 300 seconds"))
        ELSE IF Trim(base_url) = <<>>
        THEN Some(ErrConfig("Base URL cannot be empty"))
        ELSE validate_base_url(base_url).err

\* ValidateCall with the timeout check moved before the path checks.
ValidateCall_TimeoutFirst(path, method, base_url, timeout_seconds) ==
    LET method_upper == ToUppercase(method)
        path_normalized == TrimStartMatches(path, "/")
    IN  IF method_upper \notin {S_GET, S_POST, S_DELETE}
        THEN Some(ErrConfig("Only GET, POST, and DELETE are allowed"))
        ELSE IF ~(timeout_seconds >= 1 /\ timeout_seconds <= 300)
        THEN Some(ErrConfig("Timeout must be between 1 and 300 seconds"))
        ELSE IF ~is_path_safe(path_normalized)
        THEN Some(ErrConfig("Invalid path"))
        ELSE IF ~StartsWith(path_normalized, ApiPrefix)
        THEN Some(ErrConfig("Path must start with /api/"))
        ELSE IF Trim(base_url) = <<>>
        THEN Some(ErrConfig("Base URL cannot be empty"))
        ELSE validate_base_url(base_url).err

\* ValidateCall without the check of the "api/" prefix.
ValidateCall_NoPrefix(path, method, base_url, timeout_seconds) ==
    LET method_upper == ToUppercase(method)
        path_normalized == TrimStartMatches(path, "/")
    IN  IF method_upper \notin {S_GET, S_POST, S_DELETE}
        THEN Some(ErrConfig("Only GET, POST, and DELETE are allowed"))
        ELSE IF ~is_path_safe(path_normalized)
        THEN Some(ErrConfig("Invalid path"))
        ELSE IF ~(timeout_seconds >= 1 /\ timeout_seconds <= 300)
        THEN Some(ErrConfig("Timeout must be between 1 and 300 seconds"))
        ELSE IF Trim(base_url) = <<>>
        THEN Some(ErrConfig("Base URL cannot be empty"))
        ELSE validate_base_url(base_url).err

\* Lines 576-605: the method, path, timeout and base URL checks, in the
\* order of the code.  None when all pass, else Some(error).
ValidateCall(path, method, base_url, timeout_seconds) ==
    LET method_upper == ToUppercase(method)
        path_normalized == TrimStartMatches(path, "/")
    IN  IF method_upper \notin {S_GET, S_POST, S_DELETE}
        THEN Some(ErrConfig("Only GET, POST, and DELETE are allowed"))
        ELSE IF ~is_path_safe(path_normalized)
        THEN Some(ErrConfig("Invalid path"))
        ELSE IF ~StartsWith(path_normalized, ApiPrefix)
        THEN Some(ErrConfig("Path must start with /api/"))
        ELSE IF ~(timeout_seconds >= 1 /\ timeout_seconds <= 300)
        THEN Some(ErrConfig("Timeout must be between 1 and 300 seconds"))
        ELSE IF Trim(base_url) = <<>>
        THEN Some(ErrConfig("Base URL cannot be empty"))
        ELSE validate_base_url(base_url).err

\* ResolveKey that goes on without a key when the cache is empty.
ResolveKey_NoKey(cache_at_check, cache_at_read, api_key_override) ==
    LET key == IF IsSome(api_key_override)
               THEN LET trimmed == Trim(Unwrap(api_key_override))
                    IN  IF trimmed # <<>>
                        THEN IF ~IsSome(cache_at_check) THEN Some(trimmed) ELSE None
                        ELSE None
               ELSE None
    IN  IF IsSome(key)
        THEN [err |-> None, key |-> key]
        ELSE [err |-> None, key |-> cache_at_read]

\* ResolveKey that honors the override without looking at the cache.
ResolveKey_OverrideFirst(cache_at_check, cache_at_read, api_key_override) ==
    LET key == IF IsSome(api_key_override)
               THEN LET trimmed == Trim(Unwrap(api_key_override))
                    IN  IF trimmed # <<>> THEN Some(trimmed) ELSE None
               ELSE None
    IN  IF IsSome(key)
        THEN [err |-> None, key |-> key]
        ELSE IF IsSome(cache_at_read)
        THEN [err |-> None, key |-> cache_at_read]
        ELSE [err |-> Some(MissingApiKey), key |-> None]

\* Lines 609-640: the key sent as bearer.  cache_at_check is the cache under
\* the first lock (has_cached), cache_at_read the cache under the second.
ResolveKey(cache_at_check, cache_at_read, api_key_override) ==
    LET key == IF IsSome(api_key_override)
               THEN LET trimmed == Trim(Unwrap(api_key_override))
                    IN  IF trimmed # <<>>
                        THEN IF ~IsSome(cache_at_check) THEN Some(trimmed) ELSE None
                        ELSE None
               ELSE None
    IN  IF IsSome(key)
        THEN [err |-> None, key |-> key]
        ELSE IF IsSome(cache_at_read)
        THEN [err |-> None, key |-> cache_at_read]
        ELSE [err |-> Some(MissingApiKey), key |-> None]

JsonTexts == {"{}"}

\* Lines 659-663: the response text as a JSON value.
ParseBody(text) ==
    IF text = "" THEN [kind |-> "Null", v |-> ""]
    ELSE IF text \in JsonTexts THEN [kind |-> "Json", v |-> text]
    ELSE [kind |-> "String", v |-> text]

\* Lines 655-672: what is returned once the request was sent.  net.send is
\* whether send() resolved to a response, net.status its status, net.text
\* the body read by text() (None when reading it failed).
Respond(net) ==
    IF ~net.send
    THEN [err |-> Some(ErrNetwork), response |-> None]
    ELSE IF net.text = None
    THEN [err |-> Some(ErrNetwork), response |-> None]
    ELSE IF net.status = 401
    THEN [err |-> Some(ApiKeyRejected), response |-> None]
    ELSE [err |-> None,
          response |-> Some([status |-> net.status, data |-> ParseBody(Unwrap(net.text))])]

\* Lines 576-653: everything call_api does before it sends: the error that
\* ends it early, else the request it has built.
PrepareCall(cache_at_check, cache_at_read, path, method, body, base_url, timeout_seconds, api_key_override) ==
    LET invalid == ValidateCall(path, method, base_url, timeout_seconds)
        base == validate_base_url(base_url).ok
        url == base \o <<"/">> \o TrimStartMatches(path, "/")
        resolved == ResolveKey(cache_at_check, cache_at_read, api_key_override)
        request == [method |-> ToUppercase(method), url |-> url,
                    timeout |-> timeout_seconds, bearer |-> resolved.key,
                    body |-> body]
    IN  IF IsSome(invalid)
        THEN [err |-> invalid, request |-> None]
        ELSE IF IsSome(resolved.err)
        THEN [err |-> resolved.err, request |-> None]
        ELSE [err |-> None, request |-> Some(request)]

-----------------------------------------------------------------------------
(* Inputs                                                                  *)

MaxClock == 90
TickSeconds == 30

KeyInputs == {<<>>, <<" ">>, <<" ", "A", " ">>, <<"B">>}
Secrets == {Trim(k) : k \in KeyInputs} \ {<<>>}
Overrides == {None, Some(<<" ">>), Some(<<" ", "O">>)}

\* Messages of tauri_plugin_biometric::Error, None when authenticate succeeds.
BioCancel == <<"U", "s", "e", "r", " ", "C", "a", "n", "c", "e", "l">>
BioMissing == <<"n", "o", "t", " ", "a", "v", "a", "i", "l", "a", "b", "l", "e">>
BioLockout == <<"l", "o", "c", "k", "o", "u", "t">>
BioOutcomes == {None, Some(BioCancel), Some(BioMissing), Some(BioLockout)}

\* timeout_minutes: none, one minute, and the least number of minutes whose
\* seconds do not fit u64 (0x0444444444444445).
HugeMinutes == <<17477, 17476, 17476, 1092>>
TimeoutMinutes == {<<0, 0, 0, 0>>, <<1, 0, 0, 0>>, HugeMinutes}

Statuses == {200, 401, 500}
Texts == {"", "{}", "oops"}
NetOutcomes ==
    {[send |-> FALSE, status |-> 0, text |-> None]}
    \cup {[send |-> TRUE, status |-> st, text |-> t] :
            st \in Statuses, t \in {None} \cup {Some(x) : x \in Texts}}

P_api_x == <<"a", "p", "i", "/", "x">>
P_slash_api_x == <<"/", "a", "p", "i", "/", "x">>
P_x == <<"x">>
P_traversal == <<"a", "p", "i", "/", ".", ".", "/", "x">>
U_h == <<"h", "t", "t", "p", ":", "/", "/", "h">>
U_h_slashes == <<"h", "t", "t", "p", ":", "/", "/", "h", "/", "/">>
U_e == <<"H", "T", "T", "P", "S", ":", "/", "/", "e">>
U_ftp == <<"f", "t", "p", ":", "/", "/", "h">>
U_relative == <<"h">>

\* The base URL of the compiled-in configuration file.
CfgBaseUrl == U_h

\* Arguments of call_api in the gateway specification.
GwMethods == {S_GET, <<"p", "o", "s", "t">>, <<"D", "e", "l", "e", "t", "e">>,
              <<"P", "U", "T">>}
GwPaths == {P_api_x, P_slash_api_x, P_x, P_traversal, <<>>}
GwTimeouts == {0, 1, 300, 301}
GwBaseUrls == {<<>>, U_h, U_h_slashes, U_e, U_ftp, U_relative}
GwOverrides == Overrides
GwBodies == {None, Some("{}")}

\* Arguments of call_api in the vault specification.
VaultPaths == {P_api_x, P_x}
VaultNet == {n \in NetOutcomes : n.text # Some("oops") /\ n.status # 500}

-----------------------------------------------------------------------------
(* State                                                                   *)

\* The commands that may be in flight at once, none of them started.
NTasks == 2
Task == 1..NTasks
Idle == [cmd |-> "idle", pc |-> 0]
NoLocks == [api_key |-> 0, last_unlock_time |-> 0]

NoHist == [clearedSince |-> FALSE, rejected |-> FALSE,
           rejectedCleared |-> FALSE, freshSet |-> None, lastSet |-> None]

\* Lines 684-712 (run): the configuration of the build, an empty cache, no
\* unlock instant; the vault file is whatever an earlier run left.
BuildInit ==
    /\ devBuild \in BOOLEAN
    /\ mobile \in BOOLEAN
    /\ config = [base_url |-> CfgBaseUrl, timeout_seconds |-> 30]
    /\ now = 0
    /\ ret = [cmd |-> "run", err |-> None]
    /\ hist = NoHist
    /\ tasks = [t \in Task |-> Idle]
    /\ locks = NoLocks

Init ==
    /\ BuildInit
    /\ arg = <<>>
    /\ res = FALSE
    /\ api_key = None
    /\ last_unlock_time = None
    /\ vault \in {None} \cup {Some(k) : k \in Secrets}

build == <<devBuild, mobile, config>>
conc == <<tasks, locks>>

\* convert_biometric_error
convert_biometric_error(err) ==
    LET err_str == ToLowercase(err)
    IN  IF \/ Contains(err_str, <<"c", "a", "n", "c", "e", "l">>)
           \/ Contains(err_str, <<"c", "a", "n", "c", "e", "l", "l", "e", "d">>)
           \/ Contains(err_str, <<"u", "s", "e", "r", " ", "c", "a", "n", "c", "e", "l", "l", "e", "d">>)
        THEN BiometricCancelled
        ELSE IF \/ Contains(err_str, <<"n", "o", "t", " ", "a", "v", "a", "i", "l", "a", "b", "l", "e">>)
                \/ Contains(err_str, <<"u", "n", "a", "v", "a", "i", "l", "a", "b", "l", "e">>)
                \/ Contains(err_str, <<"n", "o", " ", "b", "i", "o", "m", "e", "t", "r", "i", "c">>)
        THEN BiometricUnavailable
        ELSE BiometricFailed

\* The presence prompt of a command: compiled in on mobile targets only.
\* None when the command goes on, else Some(error).
Authenticate(bio) ==
    IF mobile /\ IsSome(bio) THEN Some(convert_biometric_error(Unwrap(bio))) ELSE None

-----------------------------------------------------------------------------
(* Commands                                                                *)

\* What the environment does to a command: bio is the outcome of its presence
\* prompt, fault the first vault step that fails ("none" when none does).
Env(faults) ==
    {[bio |-> b, fault |-> "none"] : b \in BioOutcomes}
    \cup {[bio |-> None, fault |-> f] : f \in faults}

SetFaults == {"load", "insert", "path", "commit"}
LoadFaults == {"load", "get"}
ResetFaults == {"load", "revoke", "path", "commit", "delete"}
StatusFaults == {"none", "path", "load", "get"}

\* unlock_and_cache_api_key: also a prompt that fails before a vault that
\* could not be loaded either.
UnlockEnv ==
    Env(LoadFaults) \cup {[bio |-> b, fault |-> "load"] : b \in BioOutcomes \ {None}}

\* The cache, the unlock instant and the vault as a command leaves them.
Unchanged(e) ==
    [err |-> e, api_key |-> api_key, last_unlock_time |-> last_unlock_time,
     vault |-> vault]

\* set_api_key that stores and caches the key as given, untrimmed.
set_api_key_Untrimmed(key, bio, fault) ==
    LET trimmed == Trim(key)
        auth == Authenticate(bio)
    IN  IF trimmed = <<>> THEN Unchanged(Some(ErrConfig("API key cannot be empty")))
        ELSE IF IsSome(auth) THEN Unchanged(auth)
        ELSE IF fault = "load"
        THEN Unchanged(Some(VaultUnavailable("Failed to load vault snapshot")))
        ELSE IF fault = "insert"
        THEN Unchanged(Some(VaultUnavailable("Failed to store API key")))
        ELSE IF fault = "path"
        THEN Unchanged(Some(ErrConfig("Failed to get app data dir")))
        ELSE IF fault = "commit"
        THEN Unchanged(Some(VaultUnavailable("Failed to commit vault")))
        ELSE [err |-> None, api_key |-> Some(key),
              last_unlock_time |-> Some(now), vault |-> Some(key)]

\* set_api_key that prompts before it looks at the key.
set_api_key_PromptFirst(key, bio, fault) ==
    LET trimmed == Trim(key)
        auth == Authenticate(bio)
    IN  IF IsSome(auth) THEN Unchanged(auth)
        ELSE IF trimmed = <<>> THEN Unchanged(Some(ErrConfig("API key cannot be empty")))
        ELSE IF fault \in {"load", "insert", "path", "commit"}
        THEN Unchanged(Some(VaultUnavailable("Failed")))
        ELSE [err |-> None, api_key |-> Some(trimmed),
              last_unlock_time |-> Some(now), vault |-> Some(trimmed)]

\* set_api_key(key): the error returned and the state left behind.
set_api_key(key, bio, fault) ==
    LET trimmed == Trim(key)
        auth == Authenticate(bio)
    IN  IF trimmed = <<>> THEN Unchanged(Some(ErrConfig("API key cannot be empty")))
        ELSE IF IsSome(auth) THEN Unchanged(auth)
        ELSE IF fault = "load"
        THEN Unchanged(Some(VaultUnavailable("Failed to load vault snapshot")))
        ELSE IF fault = "insert"
        THEN Unchanged(Some(VaultUnavailable("Failed to store API key")))
        ELSE IF fault = "path"
        THEN Unchanged(Some(ErrConfig("Failed to get app data dir")))
        ELSE IF fault = "commit"
        THEN Unchanged(Some(VaultUnavailable("Failed to commit vault")))
        ELSE [err |-> None, api_key |-> Some(trimmed),
              last_unlock_time |-> Some(now), vault |-> Some(trimmed)]

SetApiKey(key, bio, fault) ==
    /\ ~mobile => bio = None
    /\ \E r \in {set_api_key(key, bio, fault)} :
          /\ api_key' = r.api_key
          /\ last_unlock_time' = r.last_unlock_time
          /\ vault' = r.vault
          /\ hist' = IF r.err = None
                     THEN [NoHist EXCEPT !.freshSet = Some(key),
                                         !.lastSet = Some(Trim(key))]
                     ELSE [NoHist EXCEPT !.lastSet = hist.lastSet]
          /\ ret' = [cmd |-> "set_api_key", err |-> r.err, key |-> key,
                     bio |-> bio, fault |-> fault]
    /\ UNCHANGED <<build, conc, now, arg, res>>

\* LoadAndCache that forgets to record the unlock instant.
LoadAndCache_NoInstant(fault) ==
    IF fault = "load"
    THEN Unchanged(Some(VaultUnavailable("Failed to load vault snapshot")))
    ELSE IF fault = "get" \/ vault = None
    THEN Unchanged(Some(MissingApiKey))
    ELSE [err |-> None, api_key |-> vault, last_unlock_time |-> last_unlock_time,
          vault |-> vault]

\* Lines 305-327 and 374-396: read the key from the vault into the cache and
\* record the unlock instant.
LoadAndCache(fault) ==
    IF fault = "load"
    THEN Unchanged(Some(VaultUnavailable("Failed to load vault snapshot")))
    ELSE IF fault = "get" \/ vault = None
    THEN Unchanged(Some(MissingApiKey))
    ELSE [err |-> None, api_key |-> vault, last_unlock_time |-> Some(now),
          vault |-> vault]

\* unlock_and_cache_api_key that reads the vault whatever the prompt says.
unlock_and_cache_api_key_NoGate(bio, fault) == LoadAndCache(fault)

\* unlock_and_cache_api_key()
unlock_and_cache_api_key(bio, fault) ==
    LET auth == Authenticate(bio)
    IN  IF IsSome(auth) THEN Unchanged(auth) ELSE LoadAndCache(fault)

Unlock(bio, fault) ==
    /\ ~mobile => bio = None
    /\ \E r \in {unlock_and_cache_api_key(bio, fault)} :
          /\ api_key' = r.api_key
          /\ last_unlock_time' = r.last_unlock_time
          /\ ret' = [cmd |-> "unlock_and_cache_api_key", err |-> r.err,
                     bio |-> bio, fault |-> fault]
    /\ hist' = [NoHist EXCEPT !.lastSet = hist.lastSet]
    /\ UNCHANGED <<build, conc, vault, now, arg, res>>

\* crypto.rs, zeroize_string: every byte of the buffer becomes zero.
zeroize_string(s) == [i \in 1..Len(s) |-> NUL]

\* The memory the cache gives back when a value is assigned over old: the
\* old Option<String> is dropped, and drop frees the buffer with the bytes
\* the String held. None when there was no String.
DropCache(old) == IF IsSome(old) THEN Some([i \in 1..Len(Unwrap(old)) |-> Unwrap(old)[i]]) ELSE None

\* clear_api_key_cache that leaves the cache as it is.
ClearApiKeyCache_Keeps ==
    /\ api_key' = api_key
    /\ hist' = [clearedSince |-> TRUE, rejected |-> FALSE,
                rejectedCleared |-> hist.rejected, freshSet |-> None,
                lastSet |-> hist.lastSet]
    /\ ret' = [cmd |-> "clear_api_key_cache", err |-> None,
               released |-> DropCache(api_key)]
    /\ UNCHANGED <<build, conc, vault, last_unlock_time, now, arg, res>>

\* clear_api_key_cache()
ClearApiKeyCache ==
    /\ api_key' = None
    /\ hist' = [clearedSince |-> TRUE, rejected |-> FALSE,
                rejectedCleared |-> hist.rejected, freshSet |-> None,
                lastSet |-> hist.lastSet]
    /\ ret' = [cmd |-> "clear_api_key_cache", err |-> None,
               released |-> DropCache(api_key)]
    /\ UNCHANGED <<build, conc, vault, last_unlock_time, now, arg, res>>

\* u64 as four 16-bit limbs, the lowest first.
Limb == 65536

\* x * k in u64 for a small k: the limbs of the product modulo 2^64 and the
\* carry out of the highest limb.
RECURSIVE MulU64(_, _, _, _)
MulU64(x, k, i, carry) ==
    IF i > Len(x) THEN [limbs |-> <<>>, carry |-> carry]
    ELSE LET p == x[i] * k + carry
             rest == MulU64(x, k, i + 1, p \div Limb)
         IN  [limbs |-> <<p % Limb>> \o rest.limbs, carry |-> rest.carry]

\* n < x for a small natural n and a u64 x
LessThanU64(n, x) ==
    \/ x[3] # 0 \/ x[4] # 0 \/ x[2] >= Limb \div 2
    \/ n < x[1] + x[2] * Limb

\* Line 345: timeout_minutes * 60 overflows u64 for large timeout_minutes.
\* The build with debug assertions checks the multiplication and panics, the
\* release build wraps around.
Panicked == [kind |-> "Panic", msg |-> "attempt to multiply with overflow"]
TimeoutOverflows(timeout_minutes) == MulU64(timeout_minutes, 60, 1, 0).carry # 0

\* Lines 345-354: is the last unlock younger than the timeout?
StillFresh(timeout_minutes) ==
    LET timeout_duration == MulU64(timeout_minutes, 60, 1, 0).limbs
    IN  /\ IsSome(last_unlock_time)
        /\ LessThanU64(now - Unwrap(last_unlock_time), timeout_duration)

\* biometric_resume_auth(timeout_minutes): whether the presence prompt was
\* shown, the error returned and the state left behind.
biometric_resume_auth(timeout_minutes, bio, fault) ==
    LET auth == Authenticate(bio)
    IN  IF devBuild /\ TimeoutOverflows(timeout_minutes)
        THEN [prompted |-> FALSE, out |-> Unchanged(Some(Panicked))]
        ELSE IF StillFresh(timeout_minutes)
        THEN [prompted |-> FALSE, out |-> Unchanged(None)]
        ELSE IF IsSome(auth) THEN [prompted |-> TRUE, out |-> Unchanged(auth)]
        ELSE [prompted |-> mobile, out |-> LoadAndCache(fault)]

BiometricResumeAuth(timeout_minutes, bio, fault) ==
    /\ ~mobile => bio = None
    /\ \E r \in {biometric_resume_auth(timeout_minutes, bio, fault)} :
          /\ api_key' = r.out.api_key
          /\ last_unlock_time' = r.out.last_unlock_time
          /\ ret' = [cmd |-> "biometric_resume_auth", err |-> r.out.err, bio |-> bio,
                     fault |-> fault, timeout_minutes |-> timeout_minutes,
                     prompted |-> r.prompted]
    /\ hist' = [NoHist EXCEPT !.lastSet = hist.lastSet]
    /\ UNCHANGED <<build, conc, vault, now, arg, res>>

\* reset_api_key(); under the fault "delete" store.delete fails, and the code
\* discards its result and goes on.
reset_api_key(bio, fault) ==
    LET auth == Authenticate(bio)
        cleared == [Unchanged(None) EXCEPT !.api_key = None]
    IN  IF IsSome(auth) THEN Unchanged(auth)
        ELSE IF fault = "load"
        THEN [cleared EXCEPT !.err = Some(VaultUnavailable("Failed to load vault snapshot"))]
        ELSE IF fault = "revoke"
        THEN [cleared EXCEPT !.err = Some(VaultUnavailable("Failed to remove API key"))]
        ELSE IF fault = "path"
        THEN [cleared EXCEPT !.err = Some(ErrConfig("Failed to get app data dir"))]
        ELSE IF fault = "commit"
        THEN [cleared EXCEPT !.err = Some(VaultUnavailable("Failed to commit vault"))]
        ELSE [cleared EXCEPT !.vault = IF fault = "delete" THEN vault ELSE None,
                             !.last_unlock_time = None]

ResetApiKey(bio, fault) ==
    /\ ~mobile => bio = None
    /\ \E r \in {reset_api_key(bio, fault)} :
          /\ api_key' = r.api_key
          /\ last_unlock_time' = r.last_unlock_time
          /\ vault' = r.vault
          /\ ret' = [cmd |-> "reset_api_key", err |-> r.err, bio |-> bio,
                     fault |-> fault,
                     released |-> IF IsSome(Authenticate(bio)) THEN None
                                  ELSE DropCache(api_key)]
    /\ hist' = [hist EXCEPT !.rejected = FALSE, !.rejectedCleared = FALSE,
                            !.freshSet = None]
    /\ UNCHANGED <<build, conc, now, arg, res>>

\* get_api_key_status(): fault is the vault step that fails.
get_api_key_status(cache, stored, fault) ==
    IF IsSome(cache) THEN "Unlocked"
    ELSE IF fault = "path" THEN "NotSet"
    ELSE IF stored = None THEN "NotSet"
    ELSE IF fault = "load" THEN "NotSet"
    ELSE IF fault = "get" THEN "NotSet"
    ELSE "Locked"

GetApiKeyStatus(fault) ==
    /\ ret' = [cmd |-> "get_api_key_status", err |-> None, fault |-> fault,
               status |-> get_api_key_status(api_key, vault, fault)]
    /\ UNCHANGED <<build, conc, api_key, last_unlock_time, vault, now, hist, arg, res>>

\* call_api that empties the cache when the server answers 401.
CallApi_ClearsOnRejected(path, method, body, base_url, timeout_seconds, api_key_override, nets) ==
    \E p \in {PrepareCall(api_key, api_key, path, method, body, base_url,
                           timeout_seconds, api_key_override)} :
       \E net \in nets :
          \E r \in {IF IsSome(p.err)
                     THEN [err |-> p.err, response |-> None]
                     ELSE Respond(net)} :
              /\ ret' = [cmd |-> "call_api", err |-> r.err, path |-> path,
                         method |-> method, body |-> body, base_url |-> base_url,
                         timeout_seconds |-> timeout_seconds,
                         api_key_override |-> api_key_override,
                         net |-> IF IsSome(p.request) THEN Some(net) ELSE None,
                         request |-> p.request, response |-> r.response]
              /\ hist' = [hist EXCEPT
                            !.rejected = r.err = Some(ApiKeyRejected) /\ IsSome(api_key)]
              /\ api_key' = IF r.err = Some(ApiKeyRejected) THEN None ELSE api_key
              /\ UNCHANGED <<build, conc, last_unlock_time, vault, now, arg, res>>

\* call_api(path, method, body, base_url, timeout_seconds, api_key_override);
\* nets are the outcomes the network may have.
CallApi(path, method, body, base_url, timeout_seconds, api_key_override, nets) ==
    \E p \in {PrepareCall(api_key, api_key, path, method, body, base_url,
                           timeout_seconds, api_key_override)} :
       \E net \in nets :
          \E r \in {IF IsSome(p.err)
                     THEN [err |-> p.err, response |-> None]
                     ELSE Respond(net)} :
              /\ ret' = [cmd |-> "call_api", err |-> r.err, path |-> path,
                         method |-> method, body |-> body, base_url |-> base_url,
                         timeout_seconds |-> timeout_seconds,
                         api_key_override |-> api_key_override,
                         net |-> IF IsSome(p.request) THEN Some(net) ELSE None,
                         request |-> p.request, response |-> r.response]
              /\ hist' = [hist EXCEPT
                            !.rejected = r.err = Some(ApiKeyRejected) /\ IsSome(api_key)]
              /\ UNCHANGED <<build, conc, api_key, last_unlock_time, vault, now, arg, res>>

\* Time passes.
Tick ==
    /\ now + TickSeconds <= MaxClock
    /\ now' = now + TickSeconds
    /\ UNCHANGED <<build, conc, api_key, last_unlock_time, vault, ret, hist, arg, res>>

Next ==
    \/ \E key \in KeyInputs, env \in Env(SetFaults) :
          SetApiKey(key, env.bio, env.fault)
    \/ \E env \in UnlockEnv : Unlock(env.bio, env.fault)
    \/ ClearApiKeyCache
    \/ \E t \in TimeoutMinutes, env \in Env(LoadFaults) :
          BiometricResumeAuth(t, env.bio, env.fault)
    \/ \E env \in Env(ResetFaults) : ResetApiKey(env.bio, env.fault)
    \/ \E fault \in StatusFaults : GetApiKeyStatus(fault)
    \/ \E path \in VaultPaths, o \in Overrides :
          CallApi(path, S_GET, None, U_h, 30, o, VaultNet)
    \/ Tick

Spec == Init /\ [][Next]_vars

\* The gateway alone: call_api on every cache state, over all its arguments.
GatewayInit ==
    /\ BuildInit
    /\ arg = <<>>
    /\ res = FALSE
    /\ \E k \in {None} \cup {Some(x) : x \in Secrets} :
          /\ api_key = k
          /\ vault = k
          /\ last_unlock_time = IF IsSome(k) THEN Some(0) ELSE None

\* call_api leaves the cache, the vault and the clock alone, so one call from
\* each initial state already covers every call of a longer run.
GatewayNext ==
    /\ ret.cmd = "run"
    /\ \E path \in GwPaths, method \in GwMethods, body \in GwBodies,
          base_url \in GwBaseUrls, t \in GwTimeouts, o \in GwOverrides :
             CallApi(path, method, body, base_url, t, o, NetOutcomes)

GatewaySpec == GatewayInit /\ [][GatewayNext]_vars

-----------------------------------------------------------------------------
(* The commands statement by statement, several in flight at once        *)

\* The statements of each command that touch a Mutex, the vault, the
\* presence prompt or the network, in the order of the code.
Program(cmd) ==
    CASE cmd = "set_api_key" ->
            <<"check_key", "prompt", "load", "insert", "path", "commit",
              "lock_cache", "store_cache", "lock_time", "store_time", "return">>
      [] cmd = "unlock_and_cache_api_key" ->
            <<"prompt", "load", "get", "lock_cache", "store_cache",
              "lock_time", "store_time", "return">>
      [] cmd = "clear_api_key_cache" ->
            <<"lock_cache", "store_cache", "return">>
      [] cmd = "biometric_resume_auth" ->
            <<"lock_time", "check_fresh", "prompt", "load", "get", "lock_cache",
              "store_cache", "lock_time", "store_time", "return">>
      [] cmd = "reset_api_key" ->
            <<"prompt", "lock_cache", "store_cache", "load", "revoke", "delete",
              "path", "commit", "lock_time", "clear_time", "return">>
      [] cmd = "get_api_key_status" ->
            <<"lock_cache", "peek_cache", "path", "exists", "load", "get_status">>
      [] cmd = "call_api" ->
            <<"validate", "lock_cache", "has_cached", "lock_cache", "clone_cache",
              "send", "text">>

Commands == {"set_api_key", "unlock_and_cache_api_key", "clear_api_key_cache",
             "biometric_resume_auth", "reset_api_key", "get_api_key_status",
             "call_api"}

\* The statements that wait for the user, the vault file or the network.
IoOps == {"prompt", "load", "get", "insert", "revoke", "delete", "path", "exists",
          "commit", "get_status", "send", "text"}

Running(t) == tasks[t].cmd # "idle"
Op(t) == Program(tasks[t].cmd)[tasks[t].pc]
At(t, op) == Running(t) /\ Op(t) = op
Held(t) == {m \in DOMAIN locks : locks[m] = t}

\* A step of task t: its record, the cache, the unlock instant, the vault
\* file and the locks after it.  What a command returns shows in the vault
\* specification; here the task ends.
Eff(t, tk, cache, time, file, lk) ==
    /\ tasks' = [tasks EXCEPT ![t] = tk]
    /\ api_key' = cache
    /\ last_unlock_time' = time
    /\ vault' = file
    /\ locks' = lk
    /\ UNCHANGED <<build, now, ret, hist, arg, res>>

Forward(t) == [tasks[t] EXCEPT !.pc = @ + 1]
Jump(t, pc) == [tasks[t] EXCEPT !.pc = pc]
Local(t) == Eff(t, Forward(t), api_key, last_unlock_time, vault, locks)
\* The command returns, with Ok or with an error.
Return(t) == Eff(t, Idle, api_key, last_unlock_time, vault, locks)

\* The frontend invokes a command.
Invoke(t, cmd, in) ==
    /\ ~Running(t)
    /\ Eff(t, [cmd |-> cmd, pc |-> 1, in |-> in, val |-> None, snap |-> None],
           api_key, last_unlock_time, vault, locks)

\* Lines 220-223
CheckKey(t) ==
    /\ At(t, "check_key")
    /\ IF Trim(tasks[t].in) = <<>>
       THEN Return(t)
       ELSE Eff(t, [Forward(t) EXCEPT !.val = Some(Trim(tasks[t].in))],
                api_key, last_unlock_time, vault, locks)

\* Lines 225-241, 287-303, 356-372, 405-421: compiled in on mobile only.
Prompt(t, bio) ==
    /\ At(t, "prompt")
    /\ ~mobile => bio = None
    /\ IF IsSome(Authenticate(bio)) THEN Return(t) ELSE Local(t)

\* load_stronghold_client: the snapshot on disk is read into memory.
Load(t, ok) ==
    /\ At(t, "load")
    /\ IF ok
       THEN Eff(t, [Forward(t) EXCEPT !.snap = vault],
                api_key, last_unlock_time, vault, locks)
       ELSE Return(t)

\* store.insert on the snapshot in memory
Insert(t, ok) ==
    /\ At(t, "insert")
    /\ IF ok
       THEN Eff(t, [Forward(t) EXCEPT !.snap = tasks[t].val],
                api_key, last_unlock_time, vault, locks)
       ELSE Return(t)

\* store.get on the snapshot in memory (lines 311-316, 380-385)
Get(t, ok) ==
    /\ At(t, "get")
    /\ IF ok /\ IsSome(tasks[t].snap)
       THEN Eff(t, [Forward(t) EXCEPT !.val = tasks[t].snap],
                api_key, last_unlock_time, vault, locks)
       ELSE Return(t)

\* client.revoke_data (lines 437-439)
Revoke(t, ok) ==
    /\ At(t, "revoke")
    /\ IF ok THEN Local(t) ELSE Return(t)

\* let _ = store.delete (line 443): the result is discarded.
Delete(t, ok) ==
    /\ At(t, "delete")
    /\ Eff(t, [Forward(t) EXCEPT !.snap = IF ok THEN None ELSE @],
           api_key, last_unlock_time, vault, locks)

\* get_vault_path
GetVaultPath(t, ok) ==
    /\ At(t, "path")
    /\ IF ok THEN Local(t) ELSE Return(t)

\* commit_stronghold: the snapshot in memory replaces the one on disk.
Commit(t, ok) ==
    /\ At(t, "commit")
    /\ IF ok
       THEN Eff(t, Forward(t), api_key, last_unlock_time, tasks[t].snap, locks)
       ELSE Return(t)

\* state.api_key.lock()
LockCache(t) ==
    /\ At(t, "lock_cache")
    /\ locks.api_key = 0
    /\ Eff(t, Forward(t), api_key, last_unlock_time, vault,
           [locks EXCEPT !.api_key = t])

\* StoreCache whose guard outlives the block.
StoreCache_KeepsGuard(t) ==
    /\ At(t, "store_cache")
    /\ Eff(t, Forward(t), tasks[t].val, last_unlock_time, vault, locks)

\* *cache = ...; and the guard goes out of scope.
StoreCache(t) ==
    /\ At(t, "store_cache")
    /\ Eff(t, Forward(t), tasks[t].val, last_unlock_time, vault,
           [locks EXCEPT !.api_key = 0])

\* state.last_unlock_time.lock()
LockTime(t) ==
    /\ At(t, "lock_time")
    /\ locks.last_unlock_time = 0
    /\ Eff(t, Forward(t), api_key, last_unlock_time, vault,
           [locks EXCEPT !.last_unlock_time = t])

\* *last_time = Some(Instant::now());
StoreTime(t) ==
    /\ At(t, "store_time")
    /\ Eff(t, Forward(t), api_key, Some(now), vault,
           [locks EXCEPT !.last_unlock_time = 0])

\* *last_time = None; (lines 449-451)
ClearTime(t) ==
    /\ At(t, "clear_time")
    /\ Eff(t, Forward(t), api_key, None, vault,
           [locks EXCEPT !.last_unlock_time = 0])

\* Lines 347-354: return Ok(()) when the last unlock is young enough.
CheckFresh(t) ==
    /\ At(t, "check_fresh")
    /\ Eff(t, IF StillFresh(tasks[t].in) THEN Idle ELSE Forward(t),
           api_key, last_unlock_time, vault,
           [locks EXCEPT !.last_unlock_time = 0])

\* Lines 462-466: Unlocked when the cache holds a key.
PeekCache(t) ==
    /\ At(t, "peek_cache")
    /\ Eff(t, IF IsSome(api_key) THEN Idle ELSE Forward(t),
           api_key, last_unlock_time, vault, [locks EXCEPT !.api_key = 0])

\* vault_path.exists() (line 474): NotSet when there is no file.
Exists(t) ==
    /\ At(t, "exists")
    /\ IF IsSome(vault) THEN Local(t) ELSE Return(t)

\* store.get of get_api_key_status (lines 483-486): Locked or NotSet.
GetStatus(t) ==
    /\ At(t, "get_status")
    /\ Return(t)

\* Lines 576-612: the checks, then the way to the key.
Validate(t) ==
    /\ At(t, "validate")
    /\ \E in \in {tasks[t].in} :
       \E invalid \in {ValidateCall(in.path, in.method, in.base_url, in.timeout_seconds)} :
          IF IsSome(invalid) THEN Return(t)
          ELSE IF IsSome(in.api_key_override) /\ Trim(Unwrap(in.api_key_override)) # <<>>
          THEN Local(t)
          ELSE Eff(t, Jump(t, 4), api_key, last_unlock_time, vault, locks)

\* Lines 612-622: has_cached, read under the lock.
HasCached(t) ==
    /\ At(t, "has_cached")
    /\ Eff(t, IF IsSome(api_key)
              THEN Forward(t)
              ELSE [Jump(t, 6) EXCEPT !.val = Some(Trim(Unwrap(tasks[t].in.api_key_override)))],
           api_key, last_unlock_time, vault, [locks EXCEPT !.api_key = 0])

\* Lines 633-639: the cached key is cloned under the lock; MissingApiKey
\* when there is none.
CloneCache(t) ==
    /\ At(t, "clone_cache")
    /\ Eff(t, IF IsSome(api_key) THEN [Forward(t) EXCEPT !.val = api_key] ELSE Idle,
           api_key, last_unlock_time, vault, [locks EXCEPT !.api_key = 0])

\* request.send().await (line 655), with tasks[t].val as bearer
Send(t, ok) ==
    /\ At(t, "send")
    /\ IF ok THEN Local(t) ELSE Return(t)

\* response.text().await and the mapping of the response (lines 657-672)
Text(t) ==
    /\ At(t, "text")
    /\ Return(t)

\* The last statement: Ok(())
ReturnOk(t) ==
    /\ At(t, "return")
    /\ Return(t)

CallInputs ==
    {[path |-> p, method |-> S_GET, base_url |-> U_h, timeout_seconds |-> 30,
      api_key_override |-> o] : p \in VaultPaths, o \in {None, Some(<<" ", "O">>)}}
    \ {[path |-> P_x, method |-> S_GET, base_url |-> U_h, timeout_seconds |-> 30,
        api_key_override |-> Some(<<" ", "O">>)]}

\* No command reads the configuration, and the clock stands still: a resume
\* with timeout 0 finds the last unlock too old, one with timeout 1 does not.
ConcInit ==
    /\ BuildInit
    /\ ~devBuild
    /\ arg = <<>>
    /\ res = FALSE
    /\ api_key = None
    /\ last_unlock_time = None
    /\ vault \in {None, Some(<<"A">>)}

\* One step of task t: a command is invoked, or the command in flight
\* executes its next statement.
Step(t) ==
          \/ \E key \in {<<" ">>, <<" ", "B", " ">>} : Invoke(t, "set_api_key", key)
          \/ Invoke(t, "unlock_and_cache_api_key", <<>>)
          \/ Invoke(t, "clear_api_key_cache", <<>>)
          \/ \E m \in TimeoutMinutes \ {HugeMinutes} :
                Invoke(t, "biometric_resume_auth", m)
          \/ Invoke(t, "reset_api_key", <<>>)
          \/ Invoke(t, "get_api_key_status", <<>>)
          \/ \E in \in CallInputs : Invoke(t, "call_api", in)
          \/ CheckKey(t)
          \/ \E bio \in {None, Some(BioCancel)} : Prompt(t, bio)
          \/ \E ok \in BOOLEAN : Load(t, ok)
          \/ \E ok \in BOOLEAN : Insert(t, ok)
          \/ \E ok \in BOOLEAN : Get(t, ok)
          \/ \E ok \in BOOLEAN : Revoke(t, ok)
          \/ \E ok \in BOOLEAN : Delete(t, ok)
          \/ \E ok \in BOOLEAN : GetVaultPath(t, ok)
          \/ \E ok \in BOOLEAN : Commit(t, ok)
          \/ LockCache(t)
          \/ StoreCache(t)
          \/ LockTime(t)
          \/ StoreTime(t)
          \/ ClearTime(t)
          \/ CheckFresh(t)
          \/ PeekCache(t)
          \/ Exists(t)
          \/ GetStatus(t)
          \/ Validate(t)
          \/ HasCached(t)
          \/ CloneCache(t)
          \/ \E ok \in BOOLEAN : Send(t, ok)
          \/ Text(t)
          \/ ReturnOk(t)

\* The commands one after the other: the first NConc tasks run.
NConc == 1
ConcNext == \E t \in 1..NConc : Step(t)

ConcSpec == ConcInit /\ [][ConcNext]_vars

\* The commands in flight together.
RaceNext == \E t \in Task : Step(t)

RaceSpec == ConcInit /\ [][RaceNext]_vars

-----------------------------------------------------------------------------
(* is_path_safe on its own                                                 *)

MaxChunks == 3

P_api_timeline == <<"a", "p", "i", "/", "t", "i", "m", "e", "l", "i", "n", "e">>
P_etc_passwd == <<".", ".", "/", "e", "t", "c", "/", "p", "a", "s", "s", "w", "d">>
P_encoded_dots == <<"a", "p", "i", "/", "%", "2", "e", "%", "2", "e", "/", "e", "t", "c">>
P_api_dotdot == <<"a", "p", "i", "/", ".", ".">>
P_file_url == <<"f", "i", "l", "e", ":", "/", "/", "/", "e", "t", "c", "/", "p", "a", "s", "s", "w", "d">>
P_encoded_dots_ff == <<"a", "p", "i", "/", "%", "2", "e", "%", "2", "e", "/", "%", "f", "f">>

\* The paths of the unit tests and of the specification.
TestPaths == {P_api_timeline, P_etc_passwd, P_encoded_dots, P_api_dotdot,
              P_file_url, P_encoded_dots_ff, P_api_x, P_traversal}

PathChunks ==
    {ApiPrefix, <<"/">>, <<".">>, <<"x">>, <<"\\">>, <<":">>, <<"%">>,
     <<"%", "2", "e">>, <<"%", "2", "E">>, <<"%", "5", "c">>, <<"%", "f", "f">>,
     <<"%", "c", "3">>, <<"%", "a", "9">>, <<NUL>>, FilePrefix, DataPrefix}

RECURSIVE ChunkPaths(_)
ChunkPaths(n) ==
    IF n = 0 THEN {<<>>}
    ELSE LET shorter == ChunkPaths(n - 1)
         IN  shorter \cup {p \o c : p \in shorter, c \in PathChunks}

PathInputs == ChunkPaths(MaxChunks) \cup TestPaths

\* is_path_safe reads no state: the argument is drawn, the rest is as run()
\* leaves it.
PathInit ==
    /\ BuildInit
    /\ api_key = None
    /\ last_unlock_time = None
    /\ vault = None
    /\ arg \in PathInputs
    /\ res = FALSE

IsPathSafe ==
    /\ ret.cmd = "run"
    /\ res' = is_path_safe(arg)
    /\ ret' = [cmd |-> "is_path_safe", err |-> None]
    /\ UNCHANGED <<build, conc, api_key, last_unlock_time, vault, now, hist, arg>>

PathNext == IsPathSafe

PathSpec == PathInit /\ [][PathNext]_vars

\* The path is_path_safe looks at.
Stripped(path) == TrimStartMatches(path, "/")

\* C9: is_path_safe is false for every path that, once its leading slashes are
\* stripped, is empty, contains ".." or a backslash in its raw or in its
\* percent-decoded form, contains "://" or starts with "file:" or "data:";
\* it is true for "api/timeline" and false for "../etc/passwd",
\* "api/%2e%2e/etc", "api/.." and "file:///etc/passwd".
C9_PathSafety ==
    ret.cmd = "is_path_safe" =>
        /\ ( \/ Stripped(arg) = <<>>
             \/ Contains(Stripped(arg), DotDot)
             \/ ContainsBytes(PercentDecode(Stripped(arg)), <<46, 46>>)
             \/ Contains(Stripped(arg), <<"\\">>)
             \/ ContainsBytes(PercentDecode(Stripped(arg)), <<92>>)
             \/ Contains(Stripped(arg), SchemeSep)
             \/ StartsWith(Stripped(arg), FilePrefix)
             \/ StartsWith(Stripped(arg), DataPrefix) ) => res = FALSE
        /\ arg = P_api_timeline => res = TRUE
        /\ arg \in {P_etc_passwd, P_encoded_dots, P_api_dotdot, P_file_url} => res = FALSE


-----------------------------------------------------------------------------
(* The gateway (call_api)                                                  *)

IsCall == ret.cmd = "call_api"

\* The checks of section 4.5 of the specification, each on its own.
MethodViolated == ToUppercase(ret.method) \notin {S_GET, S_POST, S_DELETE}
PathViolated ==
    \/ ~is_path_safe(Stripped(ret.path))
    \/ ~StartsWith(Stripped(ret.path), ApiPrefix)
TimeoutViolated == ret.timeout_seconds < 1 \/ ret.timeout_seconds > 300
BaseUrlViolated ==
    \/ Trim(ret.base_url) = <<>>
    \/ IsSome(validate_base_url(ret.base_url).err)
OverrideGiven ==
    /\ IsSome(ret.api_key_override)
    /\ Trim(Unwrap(ret.api_key_override)) # <<>>
SecretViolated == ~IsSome(api_key) /\ ~OverrideGiven

ValidationPasses ==
    ~MethodViolated /\ ~PathViolated /\ ~TimeoutViolated /\ ~BaseUrlViolated

\* The rejection of the specification's taxonomy that an error stands for.
Rejection(e) ==
    CASE e = ErrConfig("Only GET, POST, and DELETE are allowed") -> "UnsupportedMethod"
      [] e \in {ErrConfig("Invalid path"), ErrConfig("Path must start with /api/")}
            -> "InvalidPath"
      [] e = ErrConfig("Timeout must be between 1 and 300 seconds") -> "InvalidTimeout"
      [] e \in {ErrConfig("Base URL cannot be empty"), ErrConfig("Invalid base URL"),
                ErrConfig("Base URL must use http or https scheme")}
            -> "InvalidBaseUrl"
      [] e = MissingApiKey -> "MissingSecret"
      [] e = ApiKeyRejected -> "CredentialRejected"
      [] e = ErrNetwork -> "Transport"
      [] OTHER -> "Other"

Rejected(class) ==
    /\ IsSome(ret.err)
    /\ Rejection(Unwrap(ret.err)) = class
    /\ ret.request = None

\* C4: for every HTTP response call receives (send() has returned the
\* status), status 401 yields CredentialRejected (never Transport, never
\* data); every other status whose body arrives is returned as data
\* {status, body} with that status.
C4_ResponseMapping ==
    (IsCall /\ IsSome(ret.net) /\ Unwrap(ret.net).send) =>
        IF Unwrap(ret.net).status = 401
        THEN ret.err = Some(ApiKeyRejected) /\ ret.response = None
        ELSE IsSome(Unwrap(ret.net).text) =>
                /\ ret.err = None
                /\ IsSome(ret.response)
                /\ Unwrap(ret.response).status = Unwrap(ret.net).status

\* C5: the checks run in the order method, path, timeout, base URL, secret:
\* the error returned is the rejection of the earliest violated check, each
\* check has its own rejection, and a request is issued only when all pass.
C5_CheckOrder ==
    IsCall =>
        IF MethodViolated THEN Rejected("UnsupportedMethod")
        ELSE IF PathViolated THEN Rejected("InvalidPath")
        ELSE IF TimeoutViolated THEN Rejected("InvalidTimeout")
        ELSE IF BaseUrlViolated THEN Rejected("InvalidBaseUrl")
        ELSE IF SecretViolated THEN Rejected("MissingSecret")
        ELSE IsSome(ret.request)

\* A call with an allowed method that violates the four other checks at once.
C5_Witness ==
    /\ IsCall
    /\ ~MethodViolated /\ PathViolated /\ TimeoutViolated /\ BaseUrlViolated
    /\ SecretViolated
    /\ Rejected("InvalidPath")

\* C6: with a secret s in the cache, a call with a non-empty override o sends
\* s as bearer, not o.
C6_OverrideNeverShadows ==
    (IsCall /\ IsSome(api_key) /\ OverrideGiven /\ ValidationPasses) =>
        /\ IsSome(ret.request)
        /\ Unwrap(ret.request).bearer = api_key

C6_Witness ==
    /\ IsCall /\ IsSome(api_key) /\ OverrideGiven
    /\ Trim(Unwrap(ret.api_key_override)) # Unwrap(api_key)
    /\ IsSome(ret.request)
    /\ Unwrap(ret.request).bearer = api_key

\* C7: outside a development configuration an override is not honored: a
\* call with a non-empty override and an empty cache fails MissingSecret and
\* sends nothing.
C7_OverrideOnlyInDev ==
    (IsCall /\ ~devBuild /\ OverrideGiven /\ ~IsSome(api_key) /\ ValidationPasses) =>
        Rejected("MissingSecret")

\* C8: outside a development build every request goes to the base URL of the
\* configuration, whatever base_url the caller passes.
C8_BaseUrlFixed ==
    (IsCall /\ ~devBuild /\ IsSome(ret.request)) =>
        Unwrap(ret.request).url =
            TrimEndMatches(config.base_url, "/") \o <<"/">> \o Stripped(ret.path)

ErrClass == IF IsSome(ret.err) THEN Rejection(Unwrap(ret.err)) ELSE "None"

M_PUT == <<"P", "U", "T">>

\* C11: a call whose method, compared without regard to case, is outside
\* {GET, POST, DELETE} (PUT in particular) fails with UnsupportedMethod and
\* issues no request, whatever the other arguments and the cache hold.
C11_UnsupportedMethod ==
    IsCall =>
        /\ ToUppercase(ret.method) \notin {S_GET, S_POST, S_DELETE} =>
              Rejected("UnsupportedMethod")
        /\ ret.method = M_PUT => Rejected("UnsupportedMethod")
        /\ ToUppercase(ret.method) \in {S_GET, S_POST, S_DELETE} =>
              ErrClass # "UnsupportedMethod"

\* PUT with every other argument valid and a secret in the cache.
C11_Witness ==
    /\ IsCall
    /\ ret.method = M_PUT
    /\ ~PathViolated /\ ~TimeoutViolated /\ ~BaseUrlViolated
    /\ IsSome(api_key)
    /\ Rejected("UnsupportedMethod")

\* C12: the timeout check accepts timeout_seconds exactly when it lies in
\* 1..300: a call that passes the method and path checks is rejected with
\* InvalidTimeout for 0 and 301 (any value outside the range), and no call
\* with 1 or 300 (any value inside) is rejected with InvalidTimeout.
C12_TimeoutRange ==
    IsCall =>
        /\ (~MethodViolated /\ ~PathViolated /\ ret.timeout_seconds \notin 1..300) =>
              Rejected("InvalidTimeout")
        /\ ret.timeout_seconds \in 1..300 => ErrClass # "InvalidTimeout"
        /\ (~MethodViolated /\ ~PathViolated /\ ret.timeout_seconds \in {1, 300}) =>
              ErrClass \in {"InvalidBaseUrl", "MissingSecret", "CredentialRejected",
                            "Transport", "None"}

\* The upper end of the range passes and the request goes out.
C12_Witness ==
    /\ IsCall
    /\ ret.timeout_seconds = 300
    /\ IsSome(ret.request)
    /\ Unwrap(ret.request).timeout = 300


-----------------------------------------------------------------------------
(* validate_base_url on its own                                            *)

MaxUrlChunks == 3

ValidTestUrls ==
    {<<"h", "t", "t", "p", ":", "/", "/", "l", "o", "c", "a", "l", "h", "o", "s", "t", ":", "8", "0", "8", "0">>,
     <<"h", "t", "t", "p", "s", ":", "/", "/", "a", "p", "i", ".", "e", "x", "a", "m", "p", "l", "e", ".", "c", "o", "m">>,
     <<"h", "t", "t", "p", ":", "/", "/", "1", "9", "2", ".", "1", "6", "8", ".", "1", ".", "1", ":", "3", "0", "0", "0">>}
InvalidTestUrls ==
    {<<"f", "t", "p", ":", "/", "/", "e", "x", "a", "m", "p", "l", "e", ".", "c", "o", "m">>,
     <<"f", "i", "l", "e", ":", "/", "/", "/", "p", "a", "t", "h">>,
     <<"i", "n", "v", "a", "l", "i", "d", "-", "u", "r", "l">>}
TestUrls ==
    ValidTestUrls \cup InvalidTestUrls
       \cup {U_h, U_h_slashes, U_e, U_e \o <<"/", "/">>, U_ftp, U_relative}

UrlChunks ==
    {<<"h", "t", "t", "p">>, <<"H", "t", "t", "p", "s">>, <<"f", "t", "p">>,
     <<"f", "i", "l", "e">>, <<":">>, <<"/">>, <<"/", "/">>, <<"h">>, <<" ">>, <<"?">>}

RECURSIVE ChunkUrls(_)
ChunkUrls(n) ==
    IF n = 0 THEN {<<>>}
    ELSE LET shorter == ChunkUrls(n - 1)
         IN  shorter \cup {p \o c : p \in shorter, c \in UrlChunks}

UrlInputs == {u \o t : u \in ChunkUrls(MaxUrlChunks), t \in {<<>>, <<"h">>, <<"/">>}}
             \cup TestUrls

\* validate_base_url reads no state: the argument is drawn, the rest is as
\* run() leaves it.
UrlInit ==
    /\ BuildInit
    /\ api_key = None
    /\ last_unlock_time = None
    /\ vault = None
    /\ arg \in UrlInputs
    /\ res = FALSE

ValidateBaseUrl ==
    /\ ret.cmd = "run"
    /\ res' = validate_base_url(arg)
    /\ ret' = [cmd |-> "validate_base_url", err |-> validate_base_url(arg).err]
    /\ UNCHANGED <<build, conc, api_key, last_unlock_time, vault, now, hist, arg>>

UrlNext == ValidateBaseUrl

UrlSpec == UrlInit /\ [][UrlNext]_vars

\* The characters of s before its first ":", all of s when it has none.
RECURSIVE BeforeColon(_)
BeforeColon(s) ==
    IF s = <<>> \/ Head(s) = ":" THEN <<>> ELSE <<Head(s)>> \o BeforeColon(Tail(s))

HasColon(s) == \E i \in 1..Len(s) : s[i] = ":"

IsValidated == ret.cmd = "validate_base_url"

\* C13: validate_base_url accepts only absolute URLs whose scheme is http or
\* https (the test cases of the source among them); the empty string, URLs
\* without a scheme and ftp: and file: URLs are rejected with InvalidBaseUrl;
\* an accepted URL is returned with its trailing slashes removed.
C13_BaseUrl ==
    IsValidated =>
        /\ res.err = None =>
              /\ HasColon(arg)
              /\ ToLowercase(BeforeColon(Trim(arg))) \in {S_http, S_https}
              /\ res.ok = TrimEndMatches(arg, "/")
              /\ (res.ok = <<>> \/ res.ok[Len(res.ok)] # "/")
        /\ ( \/ arg = <<>>
             \/ ~HasColon(arg)
             \/ ToLowercase(BeforeColon(Trim(arg))) \in {<<"f", "t", "p">>, <<"f", "i", "l", "e">>} ) =>
              /\ IsSome(res.err)
              /\ Rejection(Unwrap(res.err)) = "InvalidBaseUrl"
        /\ arg \in ValidTestUrls => res.err = None
        /\ arg \in InvalidTestUrls => IsSome(res.err)

\* An https URL written in capitals, accepted and stripped of two slashes.
C13_Witness ==
    /\ IsValidated
    /\ res.err = None
    /\ ToLowercase(BeforeColon(arg)) = S_https
    /\ Len(res.ok) = Len(arg) - 2

-----------------------------------------------------------------------------
(* Locks                                                                   *)

\* C14: in no command is the cache lock or the last-unlock lock held while
\* the command waits for the presence prompt, reads or writes the vault, or
\* waits for the HTTP request: the value is copied and the lock released
\* before any such statement.
C14_NoLockAcrossIo ==
    \A t \in Task : (Running(t) /\ Op(t) \in IoOps) => Held(t) = {}

\* reset_api_key has emptied the cache under the lock and is about to load
\* the vault.
C14_Witness ==
    \E t \in Task :
        /\ tasks[t].cmd = "reset_api_key"
        /\ Op(t) = "load"
        /\ api_key = None
        /\ Held(t) = {}

-----------------------------------------------------------------------------
(* The vault commands and the gateway together                             *)

IsStatus == ret.cmd = "get_api_key_status"

\* A call that passes validations 1-4 with an empty cache and no override to
\* honor fails MissingSecret and sends nothing.
NoSecretNoRequest ==
    (IsCall /\ ValidationPasses /\ ~IsSome(api_key) /\ ~OverrideGiven) =>
        Rejected("MissingSecret")

\* Every request issued carries a non-empty bearer credential.
BearerPresent ==
    (IsCall /\ IsSome(ret.request)) =>
        /\ IsSome(Unwrap(ret.request).bearer)
        /\ Unwrap(Unwrap(ret.request).bearer) # <<>>

\* After the cache was cleared following a CredentialRejected result, and
\* before any unlock, a call without override fails MissingSecret.
LockedAfterRejection ==
    (hist.rejectedCleared /\ IsCall /\ ValidationPasses /\ ~OverrideGiven) =>
        Rejected("MissingSecret")

\* C1 as stated: the gateway never proceeds unauthenticated (NoSecretNoRequest,
\* BearerPresent); after the cache is invalidated following a
\* CredentialRejected result, status is Locked and a call made without a
\* re-unlock fails MissingSecret.
C1_NeverUnauthenticatedOriginal ==
    /\ NoSecretNoRequest
    /\ BearerPresent
    /\ LockedAfterRejection
    /\ (hist.rejectedCleared /\ IsStatus) => ret.status = "Locked"

\* C1 as amended: ... status is Locked when the vault can be read and NotSet
\* when it cannot, and a call made without a re-unlock fails MissingSecret.
C1_NeverUnauthenticated ==
    /\ NoSecretNoRequest
    /\ BearerPresent
    /\ LockedAfterRejection
    /\ (hist.rejectedCleared /\ IsStatus) =>
          ret.status = IF ret.fault = "none" THEN "Locked" ELSE "NotSet"

C1_Witness ==
    /\ hist.rejectedCleared
    /\ IsCall /\ ValidationPasses
    /\ Rejected("MissingSecret")

\* C2 as stated: after clear_api_key_cache, with no unlock, set or resume
\* since, get_api_key_status returns Locked if a secret is persisted and
\* NotSet otherwise, never Unlocked.
C2_StatusAfterClearOriginal ==
    (hist.clearedSince /\ IsStatus) =>
        ret.status = IF IsSome(vault) THEN "Locked" ELSE "NotSet"

\* C2 as amended: ... returns Locked if a secret is persisted and the vault
\* can be read, NotSet otherwise (nothing persisted, or the vault path, the
\* snapshot or the store entry cannot be read), never Unlocked.
C2_StatusAfterClear ==
    (hist.clearedSince /\ IsStatus) =>
        /\ ret.status # "Unlocked"
        /\ ret.status = IF IsSome(vault) /\ ret.fault = "none" THEN "Locked" ELSE "NotSet"

C2_Witness ==
    /\ hist.clearedSince
    /\ IsStatus
    /\ IsSome(vault)
    /\ ret.status = "Locked"

\* C3: after set_api_key(v) succeeded for a non-empty v, get_api_key_status
\* returns Unlocked and the next call that passes validation sends the
\* trimmed v as bearer, with no unlock in between.
C3_SetThenCall ==
    IsSome(hist.freshSet) =>
        /\ IsStatus => ret.status = "Unlocked"
        /\ (IsCall /\ ValidationPasses) =>
              /\ IsSome(ret.request)
              /\ Unwrap(ret.request).bearer = Some(Trim(Unwrap(hist.freshSet)))

C3_Witness ==
    /\ IsSome(hist.freshSet)
    /\ Trim(Unwrap(hist.freshSet)) # Unwrap(hist.freshSet)
    /\ IsCall /\ OverrideGiven
    /\ IsSome(ret.request)
    /\ Unwrap(ret.request).bearer = Some(Trim(Unwrap(hist.freshSet)))
    /\ ret.err = Some(ApiKeyRejected)

\* C15: call_api changes neither the cached secret nor the last-unlock
\* instant nor the persisted secret, whatever its outcome (a failed check,
\* MissingSecret, a timeout or transport failure, CredentialRejected, a
\* response).
C15_CallFrame ==
    [][(ret'.cmd = "call_api" /\ ret' # ret) =>
          UNCHANGED <<api_key, last_unlock_time, vault>>]_vars

\* A rejected call and a call that never got an answer, the cache as before.
C15_Witness ==
    /\ IsCall
    /\ ret.err \in {Some(ApiKeyRejected), Some(ErrNetwork)}
    /\ IsSome(ret.request)
    /\ Unwrap(ret.request).bearer = api_key
    /\ vault = api_key
    /\ IsSome(last_unlock_time)

IsUnlock == ret.cmd = "unlock_and_cache_api_key"
BiometricErrors == {BiometricCancelled, BiometricUnavailable, BiometricFailed}

\* C16: when the presence check of unlock does not succeed, unlock returns
\* Cancelled if the user cancelled, Unavailable if the capability is missing
\* and a third, distinct error otherwise; the vault is not read (a vault that
\* cannot be loaded does not show) and the cache, the unlock instant and the
\* vault stay as they were.  Where no presence check is compiled in, unlock
\* never returns one of these errors.
C16_PresenceFailure ==
    [][(ret'.cmd = "unlock_and_cache_api_key" /\ ret' # ret) =>
          /\ (mobile /\ IsSome(ret'.bio)) =>
                /\ ret'.bio = Some(BioCancel) => ret'.err = Some(BiometricCancelled)
                /\ ret'.bio = Some(BioMissing) => ret'.err = Some(BiometricUnavailable)
                /\ ret'.bio = Some(BioLockout) => ret'.err = Some(BiometricFailed)
                /\ UNCHANGED <<api_key, last_unlock_time, vault>>
          /\ ~mobile =>
                (ret'.err = None \/ Unwrap(ret'.err) \notin BiometricErrors)]_vars

\* The user cancels the prompt of an unlock whose vault holds a secret that
\* could not have been loaded: Cancelled, and the cache stays empty.
C16_Witness ==
    /\ IsUnlock
    /\ mobile
    /\ ret.bio = Some(BioCancel)
    /\ ret.fault = "load"
    /\ ret.err = Some(BiometricCancelled)
    /\ IsSome(vault)
    /\ api_key = None

\* What a successful unlock leaves: the persisted secret in the cache, which
\* is the value of the last successful set_api_key if there was one, the
\* unlock instant recorded, and a status of Unlocked.
UnlockSucceeds ==
    ret'.err = None =>
        /\ IsSome(vault) /\ vault' = vault
        /\ api_key' = vault
        /\ IsSome(hist.lastSet) => api_key' = hist.lastSet
        /\ last_unlock_time' = Some(now)
        /\ \A f \in StatusFaults : get_api_key_status(api_key', vault', f) = "Unlocked"

\* C17 as claimed: ... when no secret is persisted, unlock fails with
\* MissingSecret and leaves the cache unchanged.
C17_UnlockOriginal ==
    [][(ret'.cmd = "unlock_and_cache_api_key" /\ ret' # ret) =>
          /\ UnlockSucceeds
          /\ vault = None =>
                /\ ret'.err = Some(MissingApiKey)
                /\ UNCHANGED <<api_key, last_unlock_time>>]_vars

\* C17 as amended: when unlock succeeds the cache holds the persisted secret,
\* the value of the most recent successful set_api_key, the unlock instant is
\* recorded and the status is Unlocked; when no secret is persisted unlock
\* fails and leaves the cache unchanged, with MissingSecret if the presence
\* check passed and the vault could be opened.
C17_Unlock ==
    [][(ret'.cmd = "unlock_and_cache_api_key" /\ ret' # ret) =>
          /\ UnlockSucceeds
          /\ vault = None =>
                /\ IsSome(ret'.err)
                /\ UNCHANGED <<api_key, last_unlock_time>>
                /\ (~(mobile /\ IsSome(ret'.bio)) /\ ret'.fault # "load") =>
                      ret'.err = Some(MissingApiKey)]_vars

\* An unlock that brought the value of the last set_api_key back into the
\* cache after the clock had moved on.
C17_Witness ==
    /\ IsUnlock
    /\ ret.err = None
    /\ IsSome(hist.lastSet)
    /\ api_key = hist.lastSet
    /\ vault = api_key
    /\ last_unlock_time = Some(now)
    /\ now > 0

IsResume == ret.cmd = "biometric_resume_auth"

\* The time since the last recorded unlock is less than timeout_minutes
\* minutes, in plain arithmetic.
InTime(timeout_minutes) ==
    /\ IsSome(last_unlock_time)
    /\ \/ \E i \in 2..4 : timeout_minutes[i] # 0
       \/ now - Unwrap(last_unlock_time) < 60 * timeout_minutes[1]

\* C18: biometric_resume_auth(timeout) succeeds without the presence prompt
\* when the time since the last recorded unlock is less than the timeout;
\* otherwise (the time is up, the timeout is 0, or no unlock was recorded) it
\* prompts afresh and reloads the secret before it succeeds, and records a
\* new unlock instant.
C18_Resume ==
    [][(ret'.cmd = "biometric_resume_auth" /\ ret' # ret) =>
          IF InTime(ret'.timeout_minutes)
          THEN /\ ret'.err = None
               /\ ~ret'.prompted
               /\ UNCHANGED <<api_key, last_unlock_time, vault>>
          ELSE /\ mobile => ret'.prompted
               /\ ret'.err = None =>
                     /\ ~(mobile /\ IsSome(ret'.bio))
                     /\ IsSome(vault)
                     /\ api_key' = vault
                     /\ last_unlock_time' = Some(now)]_vars

\* The cached secret is in use: the status is Unlocked, or a call
\* without override issues a request with it.
CacheUsable ==
    \/ get_api_key_status(api_key, vault, "none") = "Unlocked"
    \/ \E path \in VaultPaths :
          IsSome(PrepareCall(api_key, api_key, path, S_GET, None, U_h, 30, None).request)

\* A call without override came back with CredentialRejected.
CallRejected ==
    /\ ret'.cmd = "call_api" /\ ret' # ret
    /\ ret'.err = Some(ApiKeyRejected)
    /\ ret'.api_key_override = None

\* biometric_resume_auth found the idle timeout elapsed and did not unlock.
ResumeTimedOut ==
    /\ ret'.cmd = "biometric_resume_auth" /\ ret' # ret
    /\ ~InTime(ret'.timeout_minutes)
    /\ ret'.err # None

\* C19: the cache entry is invalidated by idle timeout and by a
\* CredentialRejected result, not only by an explicit clear: once the idle
\* timeout has elapsed since the last unlock, or once a call has returned
\* CredentialRejected, the cached secret is no longer used as a bearer
\* credential and get_api_key_status no longer returns Unlocked, until a
\* fresh unlock or set.
C19_Invalidation ==
    [][(CallRejected \/ ResumeTimedOut) => ~CacheUsable']_vars

ResetSucceeded == ret.cmd = "reset_api_key" /\ ret.err = None

\* reset_api_key once more, the presence check passing and the vault working,
\* succeeds and changes nothing.
ResetAgainSame ==
    LET r == reset_api_key(None, "none")
    IN  /\ r.err = None
        /\ r.api_key = api_key
        /\ r.last_unlock_time = last_unlock_time
        /\ r.vault = vault

\* C20: after reset_api_key returns success the persisted secret is deleted,
\* the cache is empty and the last unlock instant is cleared:
\* get_api_key_status returns NotSet, a following unlock fails MissingSecret
\* and a following call without override fails MissingSecret; a second reset
\* on this state succeeds too and leaves the same state.
C20_Reset ==
    ResetSucceeded =>
        /\ vault = None
        /\ api_key = None
        /\ last_unlock_time = None
        /\ \A fault \in StatusFaults :
              get_api_key_status(api_key, vault, fault) = "NotSet"
        /\ unlock_and_cache_api_key(None, "none").err = Some(MissingApiKey)
        /\ PrepareCall(api_key, api_key, P_api_x, S_GET, None, U_h, 30, None).err
              = Some(MissingApiKey)
        /\ ResetAgainSame

SetFailed == ret'.cmd = "set_api_key" /\ ret' # ret /\ ret'.err # None

EmptyKeyError == Some(ErrConfig("API key cannot be empty"))

\* C21: when set_api_key returns an error (empty or whitespace-only key,
\* presence check not passed, or a vault load, insert or commit failure) the
\* cache, the last unlock instant and the persisted secret are unchanged; an
\* empty or whitespace-only key is rejected before the presence prompt and
\* before any vault access, so its error is the one of the empty key whatever
\* the prompt and the vault would have done.
C21_SetFailure ==
    [][/\ SetFailed => UNCHANGED <<api_key, last_unlock_time, vault>>
       /\ (ret'.cmd = "set_api_key" /\ ret' # ret /\ Trim(ret'.key) = <<>>) =>
             ret'.err = EmptyKeyError]_vars

\* A whitespace-only key was refused while the presence prompt would have
\* been cancelled, and the secret set before is still cached and persisted.
C21_Witness ==
    /\ ret.cmd = "set_api_key"
    /\ ret.key = <<" ">>
    /\ mobile /\ IsSome(ret.bio)
    /\ ret.err = EmptyKeyError
    /\ IsSome(api_key) /\ api_key = vault

CacheCleared == ret.cmd \in {"clear_api_key_cache", "reset_api_key"}

\* C22: clearing the cache (clear_api_key_cache and the cache-clearing step
\* of reset_api_key) overwrites the memory that held the secret with zeros
\* before it releases it: no readable copy of the secret bytes remains in
\* the memory the cache gave back.
C22_ClearZeroizes ==
    (CacheCleared /\ IsSome(ret.released)) =>
        Unwrap(ret.released) = zeroize_string(Unwrap(ret.released))

-----------------------------------------------------------------------------
(* crypto.rs: the encrypted payload                                        *)

NONCE_SIZE == 12

\* base64 alphabet::STANDARD: the character of a 6-bit value.
B64Char(v) ==
    IF v < 26 THEN Chr(65 + v)
    ELSE IF v < 52 THEN Chr(97 + v - 26)
    ELSE IF v < 62 THEN Chr(48 + v - 52)
    ELSE IF v = 62 THEN "+" ELSE "/"

\* The 6-bit value of a character of the alphabet, -1 for any other.
B64Val(c) ==
    LET n == Ord(c) IN
    IF n >= 65 /\ n <= 90 THEN n - 65
    ELSE IF n >= 97 /\ n <= 122 THEN n - 97 + 26
    ELSE IF n >= 48 /\ n <= 57 THEN n - 48 + 52
    ELSE IF c = "+" THEN 62
    ELSE IF c = "/" THEN 63
    ELSE -1

\* general_purpose::STANDARD.encode: three bytes make four characters, the
\* last group is padded with "=".
RECURSIVE B64Encode(_)
B64Encode(b) ==
    IF b = <<>> THEN <<>>
    ELSE IF Len(b) = 1
    THEN <<B64Char(b[1] \div 4), B64Char((b[1] % 4) * 16), "=", "=">>
    ELSE IF Len(b) = 2
    THEN <<B64Char(b[1] \div 4), B64Char((b[1] % 4) * 16 + b[2] \div 16),
           B64Char((b[2] % 16) * 4), "=">>
    ELSE <<B64Char(b[1] \div 4), B64Char((b[1] % 4) * 16 + b[2] \div 16),
           B64Char((b[2] % 16) * 4 + b[3] \div 64), B64Char(b[3] % 64)>>
         \o B64Encode(SubSeq(b, 4, Len(b)))

\* What general_purpose::STANDARD.decode accepts: whole groups of four,
\* canonical padding at the end only, no set bit behind the last byte.
B64Canonical(s) ==
    LET n == Len(s) IN
    /\ n % 4 = 0
    /\ \A i \in 1..n : \/ B64Val(s[i]) >= 0
                      \/ (s[i] = "=" /\ i = n)
                      \/ (s[i] = "=" /\ i = n - 1 /\ s[n] = "=")
    /\ (n > 0 /\ s[n] = "=" /\ s[n - 1] # "=") => B64Val(s[n - 1]) % 4 = 0
    /\ (n > 0 /\ s[n] = "=" /\ s[n - 1] = "=") => B64Val(s[n - 2]) % 16 = 0

\* The bytes of a canonical text.
RECURSIVE B64Bytes(_)
B64Bytes(s) ==
    IF s = <<>> THEN <<>>
    ELSE LET v == [i \in 1..4 |-> B64Val(s[i])] IN
         IF s[3] = "=" THEN <<v[1] * 4 + v[2] \div 16>>
         ELSE IF s[4] = "="
         THEN <<v[1] * 4 + v[2] \div 16, (v[2] % 16) * 16 + v[3] \div 4>>
         ELSE <<v[1] * 4 + v[2] \div 16, (v[2] % 16) * 16 + v[3] \div 4,
                (v[3] % 4) * 64 + v[4]>>
              \o B64Bytes(SubSeq(s, 5, Len(s)))

\* general_purpose::STANDARD.decode: the bytes, or None for a DecodeError.
B64Decode(s) == IF B64Canonical(s) THEN Some(B64Bytes(s)) ELSE None

\* ChaCha20Poly1305 is the chacha20poly1305 crate, not code of this
\* repository. It is modelled by its contract on the values of the model: a
\* stream cipher under (key, nonce), and a 16-byte tag of key, nonce and
\* encrypted bytes in which several bytes change when any of the three does,
\* so that no changed bit turns a sealed text into another sealed text.
RECURSIVE Mix(_, _)
Mix(b, i) == IF i > Len(b) THEN 0 ELSE ((2 * i + 1) * b[i] + Mix(b, i + 1)) % 256
KeyStream(key, nonce, i) == (Mix(key, 1) + Mix(nonce, 1) + i) % 256
Tag(key, nonce, body) ==
    [j \in 1..16 |-> ((j % 2) * Mix(key, 1) + ((j \div 2) % 2) * Mix(nonce, 1)
                        + ((j \div 4) % 2) * (Mix(body, 1) + Len(body)) + j) % 256]

\* cipher.encrypt(&nonce, plaintext): the encrypted bytes and the tag.
Seal(key, nonce, plaintext) ==
    LET body == [i \in 1..Len(plaintext) |->
                    (plaintext[i] + KeyStream(key, nonce, i)) % 256]
    IN  body \o Tag(key, nonce, body)

\* cipher.decrypt(nonce, ciphertext): the plaintext, or None when the tag
\* does not match.
Open(key, nonce, ciphertext) ==
    LET n == Len(ciphertext) - 16
        body == SubSeq(ciphertext, 1, n)
    IN  IF n < 0 \/ SubSeq(ciphertext, n + 1, n + 16) # Tag(key, nonce, body)
        THEN None
        ELSE Some([i \in 1..n |-> (body[i] + 256 - KeyStream(key, nonce, i)) % 256])

\* Result<String, CryptoError>; the String is given by its UTF-8 bytes.
CryptoOk(bytes) == [err |-> None, value |-> Some(bytes)]
CryptoErr(kind) == [err |-> Some(kind), value |-> None]

\* encrypt_api_key that encodes with the unpadded engine.
encrypt_api_key_NoPad(secret, master_key, nonce) ==
    [version |-> 1,
     nonce |-> SelectSeq(B64Encode(nonce), LAMBDA c : c # "="),
     ciphertext |-> SelectSeq(B64Encode(Seal(master_key, nonce, Bytes(secret))),
                              LAMBDA c : c # "=")]

\* encrypt_api_key(api_key, master_key); nonce is what generate_nonce draws.
encrypt_api_key(secret, master_key, nonce) ==
    [version |-> 1,
     nonce |-> B64Encode(nonce),
     ciphertext |-> B64Encode(Seal(master_key, nonce, Bytes(secret)))]

\* decrypt_api_key with a cipher that does not verify the tag.
decrypt_api_key_NoTag(payload, master_key) ==
    LET nonce_bytes == B64Decode(payload.nonce)
        ciphertext == B64Decode(payload.ciphertext)
        n == Len(Unwrap(ciphertext)) - 16
    IN  IF payload.version # 1 THEN CryptoErr("InvalidVersion")
        ELSE IF nonce_bytes = None THEN CryptoErr("InvalidNonce")
        ELSE IF Len(Unwrap(nonce_bytes)) # NONCE_SIZE THEN CryptoErr("InvalidNonce")
        ELSE IF ciphertext = None THEN CryptoErr("InvalidCiphertext")
        ELSE IF n < 0 THEN CryptoErr("DecryptionFailed")
        ELSE CryptoOk([i \in 1..n |->
                (Unwrap(ciphertext)[i] + 256
                   - KeyStream(master_key, Unwrap(nonce_bytes), i)) % 256])

\* decrypt_api_key(payload, master_key)
decrypt_api_key(payload, master_key) ==
    LET nonce_bytes == B64Decode(payload.nonce)
        ciphertext == B64Decode(payload.ciphertext)
        plaintext == Open(master_key, Unwrap(nonce_bytes), Unwrap(ciphertext))
    IN  IF payload.version # 1 THEN CryptoErr("InvalidVersion")
        ELSE IF nonce_bytes = None THEN CryptoErr("InvalidNonce")
        ELSE IF Len(Unwrap(nonce_bytes)) # NONCE_SIZE THEN CryptoErr("InvalidNonce")
        ELSE IF ciphertext = None THEN CryptoErr("InvalidCiphertext")
        ELSE IF plaintext = None THEN CryptoErr("DecryptionFailed")
        ELSE IF ~Utf8Valid(Unwrap(plaintext)) THEN CryptoErr("InvalidUtf8")
        ELSE CryptoOk(Unwrap(plaintext))

\* Keys, nonces and secrets of the model.
CryptoKeys ==
    {[i \in 1..32 |-> 7], [i \in 1..32 |-> IF i = 32 THEN 8 ELSE 7], [i \in 1..32 |-> 200]}
CryptoNonces == {[i \in 1..NONCE_SIZE |-> 0], [i \in 1..NONCE_SIZE |-> 20 * i]}
CryptoSecrets == {<<"s">>, <<"t", "k">>}

\* One bit of the six a character of a base64 text stands for is flipped.
FlipBit(text, i, j) ==
    LET v == B64Val(text[i])
        bit == IF j = 0 THEN 1 ELSE IF j = 1 THEN 2 ELSE IF j = 2 THEN 4
               ELSE IF j = 3 THEN 8 ELSE IF j = 4 THEN 16 ELSE 32
    IN  [text EXCEPT ![i] = IF v < 0 THEN "!"
                            ELSE IF (v \div bit) % 2 = 1 THEN B64Char(v - bit)
                            ELSE B64Char(v + bit)]

\* The payloads a stored payload can be changed into: another version, a bit
\* of the nonce or of the ciphertext flipped, a nonce of 11 or 13 bytes, and
\* texts that are not base64 (those of test_invalid_payload_bad_base64).
Tampered(payload) ==
    {[payload EXCEPT !.version = v] : v \in {0, 2, 255}}
    \cup {[payload EXCEPT !.nonce = FlipBit(@, i, j)] :
             i \in 1..Len(payload.nonce), j \in 0..5}
    \cup {[payload EXCEPT !.ciphertext = FlipBit(@, i, j)] :
             i \in 1..Len(payload.ciphertext), j \in 0..5}
    \cup {[payload EXCEPT !.nonce = B64Encode([i \in 1..n |-> 0])] : n \in {11, 13}}
    \cup {[version |-> v,
           nonce |-> <<"n", "o", "t", "-", "b", "a", "s", "e", "6", "4", "!", "!", "!">>,
           ciphertext |-> <<"a", "l", "s", "o", "-", "n", "o", "t">>] : v \in {1, 2}}

CryptoInit ==
    /\ BuildInit
    /\ api_key = None
    /\ last_unlock_time = None
    /\ vault = None
    /\ arg \in [secret : CryptoSecrets, master_key : CryptoKeys, nonce : CryptoNonces]
    /\ res = FALSE

EncryptApiKey ==
    /\ ret.cmd = "run"
    /\ res' = encrypt_api_key(arg.secret, arg.master_key, arg.nonce)
    /\ ret' = [cmd |-> "encrypt_api_key", err |-> None]
    /\ UNCHANGED <<build, conc, api_key, last_unlock_time, vault, now, hist, arg>>

\* The stored payload is changed behind the program's back.
Tamper ==
    /\ ret.cmd = "encrypt_api_key"
    /\ res' \in Tampered(res)
    /\ ret' = [cmd |-> "tamper", err |-> None]
    /\ UNCHANGED <<build, conc, api_key, last_unlock_time, vault, now, hist, arg>>

DecryptApiKey(master_key) ==
    /\ ret.cmd \in {"encrypt_api_key", "tamper"}
    /\ \E r \in {decrypt_api_key(res, master_key)} :
          ret' = [cmd |-> "decrypt_api_key", err |-> r.err, value |-> r.value,
                  master_key |-> master_key, tampered |-> ret.cmd = "tamper"]
    /\ UNCHANGED <<build, conc, api_key, last_unlock_time, vault, now, hist, arg, res>>

CryptoNext ==
    \/ EncryptApiKey
    \/ Tamper
    \/ \E master_key \in CryptoKeys : DecryptApiKey(master_key)

CryptoSpec == CryptoInit /\ [][CryptoNext]_vars

Decrypted == ret.cmd = "decrypt_api_key"

\* C23: decrypt_api_key(encrypt_api_key(s, k), k) returns s for every
\* non-empty secret s and 32-byte key k, and the payload encrypt_api_key
\* produces has version 1 and a nonce of 12 bytes.
C23_RoundTrip ==
    /\ (Decrypted /\ ~ret.tampered /\ ret.master_key = arg.master_key) =>
          /\ ret.err = None
          /\ ret.value = Some(Bytes(arg.secret))
    /\ ret.cmd = "encrypt_api_key" =>
          /\ res.version = 1
          /\ IsSome(B64Decode(res.nonce))
          /\ Len(Unwrap(B64Decode(res.nonce))) = 12

\* The one-character secret came back from its payload, whose ciphertext
\* needs padding.
C23_Witness ==
    /\ Decrypted /\ ~ret.tampered /\ ret.master_key = arg.master_key
    /\ arg.secret = <<"s">>
    /\ ret.value = Some(<<115>>)
    /\ res.ciphertext[Len(res.ciphertext)] = "="

MalformedPayload == {"InvalidVersion", "InvalidNonce", "InvalidCiphertext"}

\* C24: decrypt_api_key never returns a plaintext other than the one
\* encrypted: with another key, after a changed bit of the nonce or of the
\* ciphertext, with a version other than 1, a nonce that is not 12 bytes or
\* invalid base64 it returns an error of the DecryptionFailed or
\* MalformedPayload class and no plaintext; the version is checked before
\* anything is decoded.
C24_NoOtherPlaintext ==
    Decrypted =>
        /\ IsSome(ret.value) => ret.value = Some(Bytes(arg.secret))
        /\ (ret.tampered \/ ret.master_key # arg.master_key) =>
              /\ ret.value = None
              /\ IsSome(ret.err)
              /\ Unwrap(ret.err) \in MalformedPayload \cup {"DecryptionFailed"}
        /\ res.version # 1 => ret.err = Some("InvalidVersion")
        /\ (res.version = 1 /\ IsSome(B64Decode(res.nonce))
               /\ Len(Unwrap(B64Decode(res.nonce))) # 12) =>
              ret.err = Some("InvalidNonce")

\* A flipped bit left the payload well-formed and the right key refused it.
C24_Witness ==
    /\ Decrypted /\ ret.tampered /\ ret.master_key = arg.master_key
    /\ res.version = 1
    /\ ret.err = Some("DecryptionFailed")

-----------------------------------------------------------------------------
(* api/src/auth.rs: the bearer check of the backend                        *)

BEARER_PREFIX == <<"B", "e", "a", "r", "e", "r", " ">>

\* HeaderValue::to_str: the text of a header value made of visible ASCII
\* bytes and tabs, None for any other value.
HeaderToStr(value) ==
    IF \A i \in 1..Len(value) : value[i] = 9 \/ (value[i] >= 32 /\ value[i] <= 126)
    THEN Some([i \in 1..Len(value) |-> IF value[i] = 9 THEN "\t" ELSE Chr(value[i])])
    ELSE None

\* api/src/error.rs, AppError::into_response
into_response(err) ==
    LET status == CASE err.kind = "Unauthorized" -> 401
                    [] err.kind = "NotFound" -> 404
                    [] OTHER -> 500
        message == IF err.kind = "Internal" THEN "An internal error occurred" ELSE err.msg
    IN  [status |-> status, body |-> [error |-> message, status |-> status]]

\* auth_middleware that looks at the prefix only.
auth_middleware_PrefixOnly(authorization, expected, handler_response) ==
    IF /\ IsSome(authorization)
       /\ IsSome(HeaderToStr(Unwrap(authorization)))
       /\ StartsWith(Unwrap(HeaderToStr(Unwrap(authorization))), BEARER_PREFIX)
    THEN [handler |-> TRUE, response |-> handler_response]
    ELSE [handler |-> FALSE,
          response |-> into_response([kind |-> "Unauthorized",
                                      msg |-> "Missing or invalid API key"])]

\* auth_middleware(req, next, api_key): authorization is the first
\* Authorization header of the request, expected the configured key, and
\* handler_response what next.run(req) answers.
auth_middleware(authorization, expected, handler_response) ==
    LET auth_header == IF IsSome(authorization)
                       THEN HeaderToStr(Unwrap(authorization)) ELSE None
        key == IF IsSome(auth_header) /\ StartsWith(Unwrap(auth_header), BEARER_PREFIX)
               THEN Some(SubSeq(Unwrap(auth_header), Len(BEARER_PREFIX) + 1,
                                Len(Unwrap(auth_header))))
               ELSE None
    IN  IF IsSome(key) /\ Bytes(Unwrap(key)) = Bytes(expected)
        THEN [handler |-> TRUE, response |-> handler_response]
        ELSE [handler |-> FALSE,
              response |-> into_response([kind |-> "Unauthorized",
                                          msg |-> "Missing or invalid API key"])]

\* The keys and the Authorization headers of the model.
ApiKeys == {<<"k", "1">>, <<"k", "2">>, <<"k">>}
AuthSchemes ==
    {BEARER_PREFIX, <<"b", "e", "a", "r", "e", "r", " ">>, <<"B", "e", "a", "r", "e", "r">>,
     <<"B", "a", "s", "i", "c", " ">>, <<" ">> \o BEARER_PREFIX, <<>>}
AuthCredentials == ApiKeys \cup {<<>>, <<"k", "1", "x">>, <<" ", "k", "1">>, <<"K", "1">>}
AuthHeaders ==
    {None} \cup {Some(Bytes(s \o k)) : s \in AuthSchemes, k \in AuthCredentials}
           \cup {Some(Bytes(BEARER_PREFIX \o k) \o <<233>>) : k \in ApiKeys}
           \cup {Some(<<233>> \o Bytes(BEARER_PREFIX \o k)) : k \in ApiKeys}

AuthInit ==
    /\ BuildInit
    /\ api_key = None
    /\ last_unlock_time = None
    /\ vault = None
    /\ arg \in [authorization : AuthHeaders, api_key : ApiKeys]
    /\ res = FALSE

\* A request to a route behind the middleware; its handler answers 200.
AuthMiddleware ==
    /\ ret.cmd = "run"
    /\ res' = auth_middleware(arg.authorization, arg.api_key, [status |-> 200, body |-> "ok"])
    /\ ret' = [cmd |-> "auth_middleware", err |-> None]
    /\ UNCHANGED <<build, conc, api_key, last_unlock_time, vault, now, hist, arg>>

AuthSpec == AuthInit /\ [][AuthMiddleware]_vars

\* The request carries exactly the configured key.
CarriesKey ==
    /\ IsSome(arg.authorization)
    /\ Unwrap(arg.authorization) = Bytes(BEARER_PREFIX \o arg.api_key)

\* C25: for a route behind auth_middleware, a request whose Authorization
\* header is missing, does not start with "Bearer " or carries a key other
\* than the configured one is answered 401 with the body {error: "Missing or
\* invalid API key", status: 401} and its handler is never run; a request
\* that carries exactly the configured key reaches the handler.
C25_BearerContract ==
    ret.cmd = "auth_middleware" =>
        IF CarriesKey
        THEN res.handler /\ res.response.status = 200
        ELSE /\ ~res.handler
             /\ res.response = [status |-> 401,
                                body |-> [error |-> "Missing or invalid API key",
                                          status |-> 401]]

\* A request with the right prefix and a key one character too long was
\* refused.
C25_Witness ==
    /\ ret.cmd = "auth_middleware"
    /\ arg.api_key = <<"k", "1">>
    /\ arg.authorization = Some(Bytes(BEARER_PREFIX \o <<"k", "1", "x">>))
    /\ ~res.handler /\ res.response.status = 401

-----------------------------------------------------------------------------
(* api/src/routes/timeline.rs: the timeline and its cursor                 *)

\* Rows of feed_items: id, pub_date (None for NULL) and read_at.
MaxItems == 3
PubDates == {None, Some(1), Some(2)}
FeedItems == [id : 1..MaxItems, pub_date : PubDates, read_at : {None, Some(1)}]
Tables ==
    UNION {{{r \in FeedItems : r.id \in ids /\ r.pub_date = f[r.id][1] /\ r.read_at = f[r.id][2]} :
              f \in [ids -> PubDates \X {None, Some(1)}]} : ids \in SUBSET (1..MaxItems)}

\* ORDER BY (fi.pub_date IS NULL) ASC, fi.pub_date DESC, fi.id DESC: does
\* row a come before row b?
OrderedBefore(a, b) ==
    IF (a.pub_date = None) # (b.pub_date = None) THEN b.pub_date = None
    ELSE IF a.pub_date # b.pub_date THEN Unwrap(a.pub_date) > Unwrap(b.pub_date)
    ELSE a.id > b.id

\* The rows in the order of ORDER BY, at most limit of them (LIMIT).
RECURSIVE OrderByLimit(_, _)
OrderByLimit(rows, limit) ==
    IF rows = {} \/ limit <= 0 THEN <<>>
    ELSE LET first == CHOOSE a \in rows : \A b \in rows \ {a} : OrderedBefore(a, b)
         IN  <<first>> \o OrderByLimit(rows \ {first}, limit - 1)

\* The cursor condition of the WHERE clause without the rows whose pub_date
\* is NULL.
CursorWhere_NoNulls(fi, cursor, before_id) ==
    \/ cursor.pub_date = None /\ fi.pub_date = None /\ fi.id < before_id
    \/ /\ cursor.pub_date # None
       /\ \/ fi.pub_date # None /\ Unwrap(fi.pub_date) < Unwrap(cursor.pub_date)
          \/ fi.pub_date = cursor.pub_date /\ fi.id < before_id

\* Lines 147-152 and 158-163: the cursor condition of the WHERE clause; a
\* comparison with NULL is not true.
CursorWhere(fi, cursor, before_id) ==
    \/ cursor.pub_date = None /\ fi.pub_date = None /\ fi.id < before_id
    \/ /\ cursor.pub_date # None
       /\ \/ fi.pub_date # None /\ Unwrap(fi.pub_date) < Unwrap(cursor.pub_date)
          \/ fi.pub_date = cursor.pub_date /\ fi.id < before_id
          \/ fi.pub_date = None

\* The rows the query of build_timeline_query selects from table db.
build_timeline_query(db, with_unread_filter, with_cursor, before_id) ==
    {fi \in db :
        /\ with_unread_filter => fi.read_at = None
        /\ with_cursor =>
              \E cursor \in {c \in db : c.id = before_id} :
                 CursorWhere(fi, cursor, before_id)}

\* TimelineCompactItem has the id of the row, FeedItemResponse also its
\* dates.
Project(view, row) ==
    IF view = Some("compact") THEN [id |-> row.id] ELSE row

\* get_timeline(state, query)
get_timeline(db, query) ==
    LET limit == IF query.limit = None THEN 50
                 ELSE IF Unwrap(query.limit) < 1 THEN 1
                 ELSE IF Unwrap(query.limit) > 200 THEN 200
                 ELSE Unwrap(query.limit)
        rows == build_timeline_query(db, query.unread = Some(TRUE),
                                     IsSome(query.before_id),
                                     IF IsSome(query.before_id)
                                     THEN Unwrap(query.before_id) ELSE 0)
        page == OrderByLimit(rows, limit)
    IN  IF IsSome(query.before_id) /\ ~\E c \in db : c.id = Unwrap(query.before_id)
        THEN [status |-> 422, limit |-> limit, items |-> <<>>]
        ELSE [status |-> 200, limit |-> limit,
              items |-> [i \in 1..Len(page) |-> Project(query.view, page[i])]]

TimelineQueries ==
    [limit : {None, Some(0), Some(1), Some(2), Some(201)},
     unread : {None, Some(TRUE)},
     before_id : {None} \cup {Some(i) : i \in 1..(MaxItems + 1)},
     view : {None, Some("compact")}]

TimelineInit ==
    /\ BuildInit
    /\ ~devBuild /\ ~mobile
    /\ api_key = None
    /\ last_unlock_time = None
    /\ vault = None
    /\ arg \in [db : Tables, query : TimelineQueries]
    /\ res = FALSE

GetTimeline ==
    /\ ret.cmd = "run"
    /\ res' = get_timeline(arg.db, arg.query)
    /\ ret' = [cmd |-> "get_timeline", err |-> None]
    /\ UNCHANGED <<build, conc, api_key, last_unlock_time, vault, now, hist, arg>>

TimelineSpec == TimelineInit /\ [][GetTimeline]_vars

\* The limit of the claim: 50 when none is given, else the one given, raised
\* to 1 and lowered to 200.
ClampedLimit(limit) ==
    IF limit = None THEN 50
    ELSE CHOOSE n \in {1, 200, Unwrap(limit)} :
            /\ Unwrap(limit) < 1 => n = 1
            /\ Unwrap(limit) > 200 => n = 200
            /\ Unwrap(limit) \in 1..200 => n = Unwrap(limit)

\* ids are the first n rows of the set rows in the order of the timeline.
IsPage(ids, rows, n) ==
    LET Row(id) == CHOOSE r \in rows : r.id = id IN
    /\ Len(ids) = IF Cardinality(rows) < n THEN Cardinality(rows) ELSE n
    /\ \A i \in 1..Len(ids) : \E r \in rows : r.id = ids[i]
    /\ \A i \in 1..(Len(ids) - 1) : OrderedBefore(Row(ids[i]), Row(ids[i + 1]))
    /\ \A r \in rows :
          (\A i \in 1..Len(ids) : ids[i] # r.id) =>
              \A i \in 1..Len(ids) : OrderedBefore(Row(ids[i]), r)

Ids(items) == [i \in 1..Len(items) |-> items[i].id]

\* The rows the unread filter of the query lets through.
Visible == {r \in arg.db : arg.query.unread = Some(TRUE) => r.read_at = None}

\* The page that follows the page just returned, asked for with the id of its
\* last item as before_id.
NextPage ==
    get_timeline(arg.db, [arg.query EXCEPT !.before_id = Some(res.items[Len(res.items)].id)])

\* C26: timeline pagination has no gaps and no overlaps. With the items
\* ordered by (pub_date IS NULL) ascending, pub_date descending, id
\* descending, a request with limit n returns the first n items of that order,
\* and a request with before_id = the id of an existing item x returns the
\* next n items strictly after x in that order, under the same unread filter;
\* a before_id that does not exist yields 422; the limit is clamped to 1..200
\* and is 50 when none is given.
C26_Pagination ==
    ret.cmd = "get_timeline" =>
        LET n == ClampedLimit(arg.query.limit)
            before_id == arg.query.before_id
            cursor == {x \in arg.db : before_id = Some(x.id)}
        IN  /\ res.limit = n
            /\ (before_id # None /\ cursor = {}) => res.status = 422
            /\ before_id = None =>
                  /\ res.status = 200
                  /\ IsPage(Ids(res.items), Visible, n)
                  /\ res.items # <<>> =>
                        IsPage(Ids(res.items \o NextPage.items), Visible, 2 * n)
            /\ \A x \in cursor :
                  /\ res.status = 200
                  /\ IsPage(Ids(res.items), {r \in Visible : OrderedBefore(x, r)}, n)

\* From a dated item the next page of one item is an undated one although
\* another undated item follows.
C26_Witness ==
    /\ ret.cmd = "get_timeline"
    /\ res.status = 200
    /\ arg.query.limit = Some(1)
    /\ \E x, r \in arg.db :
          /\ arg.query.before_id = Some(x.id)
          /\ x.pub_date # None
          /\ Ids(res.items) = <<r.id>>
          /\ r.pub_date = None
    /\ Cardinality({r \in Visible : r.pub_date = None}) = 2

ResumeSucceeded == ret.cmd = "biometric_resume_auth" /\ ret.err = None

\* C29: whenever biometric_resume_auth returns success the session can be
\* used: the cache holds a secret and get_api_key_status returns Unlocked,
\* after any sequence of set, unlock, clear and reset commands, a clear
\* followed by a resume within the idle timeout included.
C29_ResumeUsable ==
    ResumeSucceeded =>
        /\ IsSome(api_key)
        /\ \A fault \in StatusFaults :
              get_api_key_status(api_key, vault, fault) = "Unlocked"

NoneInFlight == \A t \in Task : ~Running(t)

\* C27: in every state that any interleaving of concurrent set, unlock,
\* resume, clear and reset commands reaches, once no command is in flight, a
\* non-empty cache implies that a secret is persisted and that the cached
\* value is the persisted one.
C27_Coherence ==
    (NoneInFlight /\ IsSome(api_key)) => (IsSome(vault) /\ api_key = vault)

\* Task t executes the statement it stands at.
Executes(t, op) == At(t, op) /\ tasks'[t] # tasks[t]

OverrideSupplied(t) ==
    /\ tasks[t].cmd = "call_api"
    /\ IsSome(tasks[t].in.api_key_override)
    /\ Trim(Unwrap(tasks[t].in.api_key_override)) # <<>>

\* C28: the key resolution of call_api is atomic with respect to concurrent
\* cache updates: in every interleaving with set, unlock, clear or reset a
\* call never sends the override as bearer when the cache holds a secret at
\* the moment the request is built, and never fails MissingSecret, having
\* been given a non-empty override, because the cache is empty at the moment
\* of the read.
C28_AtomicResolution ==
    [][\A t \in Task :
          /\ (Executes(t, "send") /\ OverrideSupplied(t)
                 /\ tasks[t].val = Some(Trim(Unwrap(tasks[t].in.api_key_override)))) =>
                api_key = None
          /\ (Executes(t, "clone_cache") /\ OverrideSupplied(t)) => IsSome(api_key)]_vars


-----------------------------------------------------------------------------
(* src/api: the container list and its cache (routes/docker.rs)            *)

CONTAINER_CACHE_TTL_SECONDS == 5

\* Requests the server handles at once, seconds of the clock, restarts Docker
\* carries out.
NReq == 2
MaxDockerClock == 6
MaxRestarts == 1
Req == 1..NReq

\* DockerCache::is_stale
is_stale(cache, max_age, utc_now) ==
    IF IsSome(cache.last_updated)
    THEN utc_now - Unwrap(cache.last_updated) > max_age
    ELSE TRUE

\* The backend lives in arg and the requests in flight in res.  The list of
\* containers Docker reports is told apart by the number of restarts Docker
\* has carried out; completed is the highest such number a restart request
\* has answered with success.
docker_cache == arg.docker_cache
docker_service == arg.docker_service
NoRequest == [cmd |-> "idle", pc |-> 0, containers |-> None]
Responded(t) == res[t].cmd # "idle" /\ res'[t] = NoRequest

\* DockerCache::default() in AppState; Docker may be unreachable at startup.
DockerInit ==
    /\ BuildInit
    /\ ~devBuild /\ ~mobile
    /\ api_key = None
    /\ last_unlock_time = None
    /\ vault = None
    /\ arg \in [docker_cache : {[containers |-> 0, last_updated |-> None]},
                docker_service : BOOLEAN,
                lock : {0}, restarts : {0}, completed : {0}]
    /\ res = [t \in Req |-> NoRequest]

\* A step of request t: its record, the cache, the holder of the cache
\* mutex, the restarts in Docker and the response, if it returns one.
DockerEff(t, rq, cache, holder, restarts, response) ==
    /\ res' = [res EXCEPT ![t] = rq]
    /\ arg' = [arg EXCEPT !.docker_cache = cache, !.lock = holder,
                          !.restarts = restarts,
                          !.completed =
                             IF /\ rq = NoRequest
                                /\ res[t].cmd = "restart_container"
                                /\ response.status = 200
                                /\ res[t].containers[1] > @
                             THEN res[t].containers[1] ELSE @]
    /\ ret' = response
    /\ UNCHANGED <<build, conc, api_key, last_unlock_time, vault, now, hist>>

DockerForward(t) == [res[t] EXCEPT !.pc = @ + 1]
DockerAt(t, cmd, pc) == res[t].cmd = cmd /\ res[t].pc = pc
DockerResponse(t, status, containers, cached) ==
    [cmd |-> res[t].cmd, status |-> status, containers |-> containers,
     cached |-> cached, err |-> None]
DockerLocal(t, rq) ==
    DockerEff(t, rq, docker_cache, arg.lock, arg.restarts, ret)
DockerFail(t, status) ==
    DockerEff(t, NoRequest, docker_cache, arg.lock, arg.restarts,
              DockerResponse(t, status, None, FALSE))

\* A request for GET /api/docker or POST /api/docker/{name}/restart arrives.
DockerRequest(t, cmd) ==
    /\ res[t] = NoRequest
    /\ DockerLocal(t, [cmd |-> cmd, pc |-> 1, containers |-> None])

\* state.docker_cache.lock().await (lines 38, 60, 105)
DockerLock(t) ==
    /\ \/ DockerAt(t, "list_containers", 1)
       \/ DockerAt(t, "list_containers", 4)
       \/ DockerAt(t, "restart_container", 3)
    /\ arg.lock = 0
    /\ DockerEff(t, DockerForward(t), docker_cache, t, arg.restarts, ret)

\* Lines 39-49: a cache young enough is the response; the guard is dropped.
CheckStale(t) ==
    /\ DockerAt(t, "list_containers", 2)
    /\ IF ~is_stale(docker_cache, CONTAINER_CACHE_TTL_SECONDS, now)
       THEN DockerEff(t, NoRequest, docker_cache, 0, arg.restarts,
                      DockerResponse(t, 200, Some(docker_cache.containers), TRUE))
       ELSE DockerEff(t, DockerForward(t), docker_cache, 0, arg.restarts, ret)

\* Lines 51-58: Docker lists the containers as they are now.
FetchContainers(t, ok) ==
    /\ DockerAt(t, "list_containers", 3)
    /\ IF ~docker_service THEN DockerFail(t, 503)
       ELSE IF ~ok THEN DockerFail(t, 500)
       ELSE DockerLocal(t, [DockerForward(t) EXCEPT !.containers = Some(arg.restarts)])

\* Lines 61-66
StoreContainers(t) ==
    /\ DockerAt(t, "list_containers", 5)
    /\ DockerEff(t, NoRequest,
                 [containers |-> Unwrap(res[t].containers), last_updated |-> Some(now)],
                 0, arg.restarts,
                 DockerResponse(t, 200, res[t].containers, FALSE))

\* Lines 89-96: inspect_container
InspectContainer(t, status) ==
    /\ DockerAt(t, "restart_container", 1)
    /\ IF ~docker_service THEN DockerFail(t, 503)
       ELSE IF status # 200 THEN DockerFail(t, status)
       ELSE DockerLocal(t, DockerForward(t))

\* Lines 97-103: Docker restarts the container, or fails to.
RestartContainer(t, status) ==
    /\ DockerAt(t, "restart_container", 2)
    /\ IF status # 200 THEN DockerFail(t, status)
       ELSE /\ arg.restarts < MaxRestarts
            /\ DockerEff(t, [DockerForward(t) EXCEPT !.containers = Some(arg.restarts + 1)],
                         docker_cache, arg.lock, arg.restarts + 1, ret)

\* Lines 104-111: cache.last_updated = None, and the response.
InvalidateCache(t) ==
    /\ DockerAt(t, "restart_container", 4)
    /\ DockerEff(t, NoRequest, [docker_cache EXCEPT !.last_updated = None],
                 0, arg.restarts, DockerResponse(t, 200, None, FALSE))

\* Utc::now() moves on.
DockerTick ==
    /\ now < MaxDockerClock
    /\ now' = now + 1
    /\ UNCHANGED <<build, conc, api_key, last_unlock_time, vault, ret, hist, arg, res>>

DockerNext ==
    \/ \E t \in Req :
          \/ DockerRequest(t, "list_containers")
          \/ DockerRequest(t, "restart_container")
          \/ DockerLock(t)
          \/ CheckStale(t)
          \/ \E ok \in BOOLEAN : FetchContainers(t, ok)
          \/ StoreContainers(t)
          \/ \E status \in {200, 404, 500} : InspectContainer(t, status)
          \/ \E status \in {200, 404, 500} : RestartContainer(t, status)
          \/ InvalidateCache(t)
    \/ DockerTick

DockerSpec == DockerInit /\ [][DockerNext]_vars

ListServed(t) ==
    /\ res[t].cmd = "list_containers"
    /\ Responded(t)
    /\ ret'.status = 200

\* C30: list_containers serves the cached list only while it is at most 5
\* seconds old, and otherwise fetches from Docker without holding the cache
\* lock during the fetch; a successful restart_container invalidates the
\* cache; and in every interleaving of list and restart requests, no list
\* response returned after a restart completed is served from data fetched
\* before that restart.
C30_ListAfterRestart ==
    [][\A t \in Req :
          /\ (ListServed(t) /\ ret'.cached) =>
                /\ IsSome(docker_cache.last_updated)
                /\ now - Unwrap(docker_cache.last_updated) <= 5
          /\ DockerAt(t, "list_containers", 3) => arg.lock # t
          /\ (res[t].cmd = "restart_container" /\ Responded(t) /\ ret'.status = 200) =>
                docker_cache'.last_updated = None
          /\ ListServed(t) => Unwrap(ret'.containers) >= arg.completed]_vars

====
